---------------------------- MODULE Spec2Model ----------------------------
(***************************************************************************)
(* PowerTetris: least-cost capacity expansion.                             *)
(*                                                                         *)
(* The server (server/index.js) loads hourly availability data and the     *)
(* representative-week configuration, initialises the HiGHS solver and     *)
(* then answers POST /api/optimize: buildLPModel turns the request's       *)
(* technologies and the weighted weeks into a linear program, the solver   *)
(* returns a status and primal values, and optimizeWithHiGHS extracts the  *)
(* SimulationResult.  The legacy in-browser optimiser                      *)
(* (optimizeCapacityExpansion) builds and solves a similar program with    *)
(* javascript-lp-solver.                                                   *)
(*                                                                         *)
(* Number representation.  JavaScript numbers are modelled exactly, in     *)
(* fixed point:                                                            *)
(*   - power and energy (MW, MWh): a record [s, e]; s is the value and e   *)
(*     counts multiples of the solver's feasibility tolerance, an amount   *)
(*     smaller than every other number of the model (s decides every       *)
(*     comparison, e breaks ties);                                         *)
(*   - availability factors: integers in thousandths (ProfileScale);       *)
(*   - money: a record [hi, lo, ehi, elo] worth                            *)
(*     (hi * MoneyBase + lo) / MoneyScale dollars, with the same pair for  *)
(*     the tolerance part.                                                 *)
(***************************************************************************)
EXTENDS Integers, Sequences, FiniteSets, TLC

VARIABLES
    pc,            \* server: "boot" | "failed" | "loaded" | "refused" | "listening" |
                   \* "received" | "responded"
    DATASETS,      \* region code -> [solar, wind, offshore, extreme]
    WEEK_CONFIGS,  \* region code -> sequence of week configurations
    highsSolver,   \* FALSE (null) until loadData has awaited highs()
    request,       \* body of the POST /api/optimize being handled, or NoValue
    lp,            \* model built by buildLPModel for that request, or NoValue
    solverResult,  \* what highsSolver.solve returned (or threw), or NoValue
    response,      \* HTTP response of the handler, or NoValue
    cpc,           \* in-browser optimiser: "idle" | "called" | "returned"
    cargs,         \* arguments of the optimizeCapacityExpansion call
    cmodel,        \* model it built, or NoValue
    csolution,     \* what solver.Solve returned (or threw), or NoValue
    cresult,       \* SimulationResult it returned, or NoValue
    loads,         \* what the calls of loadSpainData returned, in order
    built,         \* a call of buildLPModel: its arguments and result, or NoValue
    runs,          \* calls of optimizeWithHiGHS compared with each other, or NoValue
    priced,        \* a technology and its annual cost per unit of capacity as
                   \* the objective and the result carry it, or NoValue
    inputs,        \* App: techs, demandProfile, region, minRenewables of the
                   \* last render, as the number of changes made so far
    timer,         \* App: the inputs the pending debounce timer will send, or NoValue
    inflight,      \* App: the inputs of the requests sent and not yet answered
    simulationResult, \* App: the inputs the displayed result answers, or NoValue
    isSimulating,  \* App: the indicator
    error          \* App: the message displayed, or NoValue

vars == <<pc, DATASETS, WEEK_CONFIGS, highsSolver, request, lp, solverResult,
          response, cpc, cargs, cmodel, csolution, cresult, loads, built, runs,
          priced, inputs, timer, inflight, simulationResult, isSimulating, error>>

serverVars == <<pc, DATASETS, WEEK_CONFIGS, highsSolver, request, lp,
                solverResult, response>>

clientVars == <<cpc, cargs, cmodel, csolution, cresult>>

\* single calls of a function, outside the server process
callVars == <<loads, built, runs>>

\* the cost annualiser on its own, and the App component
uiVars == <<inputs, timer, inflight, simulationResult, isSimulating, error>>

appVars == <<priced, uiVars>>

\* the value of a variable that holds nothing; never compared with a value
NoValue == <<>>

-----------------------------------------------------------------------------
(* Program constants *)

HOURS_IN_WEEK == 168

\* const VOLL = 20000000, in dollars per MWh
VOLL == 20000000

\* BATTERY_EFF = 0.9, in tenths
BATTERY_EFF == 9

EffScale == 10

BATTERY_C_RATE == 1

\* baseDemand of generateDemand, MW
baseDemand == 30000

\* availability factors are carried in thousandths: the code's threshold
\* 0.001 is one unit
ProfileScale == 1000

\* money is carried in tenths of a dollar: the cycling cost 0.1 is one unit
MoneyScale == 10

\* the default storage duration of `tech.duration || 4`
DefaultDuration == 4

\* GW -> MW of `(tech.fixedCapacity || 0) * 1000`
GW_TO_MW == 1000

\* $/kW -> $/MW of `getAnnualFixedCost(tech) * 1000`
KW_TO_MW == 1000

\* minRenewables is a percentage
Percent == 100

-----------------------------------------------------------------------------
(* Bounds of the model *)

\* by how many tolerance units a primal value of a solution may be off
MaxTolUnits == 1

-----------------------------------------------------------------------------
(* Arithmetic *)

Max(a, b) == IF a >= b THEN a ELSE b

Min(a, b) == IF a <= b THEN a ELSE b

Abs(a) == IF a < 0 THEN -a ELSE a

RECURSIVE GCD(_, _)
GCD(a, b) == IF b = 0 THEN Abs(a) ELSE GCD(b, a % Abs(b))

RECURSIVE Pow(_, _)
Pow(b, n) == IF n = 0 THEN 1 ELSE b * Pow(b, n - 1)

\* rationals [n, d], d > 0, in lowest terms
Rat(n, d) ==
    LET g == GCD(n, d)
        sg == IF d < 0 THEN -1 ELSE 1
    IN [n |-> sg * (n \div g), d |-> sg * (d \div g)]

RInt(k) == [n |-> k, d |-> 1]

RAdd(a, b) == Rat(a.n * b.d + b.n * a.d, a.d * b.d)

RMul(a, b) == Rat(a.n * b.n, a.d * b.d)

RDiv(a, b) == Rat(a.n * b.d, a.d * b.n)

\* quantities [s, e]: s + e * tolerance
Q(s, e) == [s |-> s, e |-> e]

QZero == Q(0, 0)

QAdd(a, b) == Q(a.s + b.s, a.e + b.e)

QSub(a, b) == Q(a.s - b.s, a.e - b.e)

QScale(a, k) == Q(a.s * k, a.e * k)

QLess(a, b) == a.s < b.s \/ (a.s = b.s /\ a.e < b.e)

QMax(a, b) == IF QLess(a, b) THEN b ELSE a

QNegative(a) == QLess(a, QZero)

\* money [hi, lo, ehi, elo]
MoneyBase == 100000000

MNorm(hi, lo, ehi, elo) ==
    [hi |-> hi + (lo \div MoneyBase), lo |-> lo % MoneyBase,
     ehi |-> ehi + (elo \div MoneyBase), elo |-> elo % MoneyBase]

MZero == MNorm(0, 0, 0, 0)

\* an amount of `units` money units (tenths of a dollar) per unit of quantity
MCoef(units) == MNorm(0, units, 0, 0)

MAdd(a, b) == MNorm(a.hi + b.hi, a.lo + b.lo, a.ehi + b.ehi, a.elo + b.elo)

\* MoneyBase = MoneyLimb * MoneyLimb
MoneyLimb == 10000

\* lo * k for 0 <= lo < MoneyBase, as hi * MoneyBase + lo, by limbs
WideMul(lo, k) ==
    LET a == lo \div MoneyLimb
        b == lo % MoneyLimb
        c == Abs(k) \div MoneyLimb
        d == Abs(k) % MoneyLimb
        mid == a * d + b * c
        hi == a * c + (mid \div MoneyLimb)
        low == (mid % MoneyLimb) * MoneyLimb + b * d
    IN IF k >= 0 THEN [hi |-> hi, lo |-> low] ELSE [hi |-> -hi, lo |-> -low]

\* coefficient c (a money amount without tolerance part) times quantity q
MTimesQ(c, q) ==
    LET p == WideMul(c.lo, q.s)
    IN MNorm(c.hi * q.s + p.hi, p.lo, c.hi * q.e, c.lo * q.e)

MTimesInt(c, k) ==
    LET p == WideMul(c.lo, k)
        pe == WideMul(c.elo, k)
    IN MNorm(c.hi * k + p.hi, p.lo, c.ehi * k + pe.hi, pe.lo)

MLeq(a, b) ==
    \/ a.hi < b.hi
    \/ a.hi = b.hi /\ a.lo < b.lo
    \/ a.hi = b.hi /\ a.lo = b.lo /\ a.ehi < b.ehi
    \/ a.hi = b.hi /\ a.lo = b.lo /\ a.ehi = b.ehi /\ a.elo <= b.elo

\* the sum of a sequence of integers, by halves
RECURSIVE SeqSum(_)
SeqSum(s) ==
    IF s = <<>> THEN 0
    ELSE IF Len(s) = 1 THEN s[1]
    ELSE LET half == Len(s) \div 2
         IN SeqSum(SubSeq(s, 1, half)) + SeqSum(SubSeq(s, half + 1, Len(s)))

RECURSIVE QSum(_)
QSum(s) ==
    IF s = <<>> THEN QZero
    ELSE IF Len(s) = 1 THEN QAdd(s[1], QZero)
    ELSE LET half == Len(s) \div 2
         IN QAdd(QSum(SubSeq(s, 1, half)), QSum(SubSeq(s, half + 1, Len(s))))

RECURSIVE MSum(_)
MSum(s) ==
    IF s = <<>> THEN MZero
    ELSE IF Len(s) = 1 THEN MAdd(s[1], MZero)
    ELSE LET half == Len(s) \div 2
         IN MAdd(MSum(SubSeq(s, 1, half)), MSum(SubSeq(s, half + 1, Len(s))))

\* the concatenation of the sequences of ss, by halves
RECURSIVE Flat(_)
Flat(ss) ==
    IF ss = <<>> THEN <<>>
    ELSE IF Len(ss) = 1 THEN ss[1]
    ELSE LET half == Len(ss) \div 2
         IN Flat(SubSeq(ss, 1, half)) \o Flat(SubSeq(ss, half + 1, Len(ss)))

Range(s) == {s[i] : i \in DOMAIN s}

\* An optional value is a sequence: <<>> for JavaScript's undefined, <<v>>
\* for v
Undefined == <<>>

Some(v) == <<v>>

\* x || 0
OrZero(x) == IF x = Undefined THEN 0 ELSE x[1]

\* x || d, for numbers
OrElse(x, d) == IF x = Undefined \/ x = Some(0) THEN d ELSE x[1]

-----------------------------------------------------------------------------
(* Data on disk: what loadData may read.  Times are [month, hour] in UTC.  *)

Codes == {"es", "gb", "fr"}

Day == [month |-> 3, hour |-> 11]

Night == [month |-> 3, hour |-> 1]

EmptyDataset == [solar |-> <<>>, wind |-> <<>>, offshore |-> <<>>, extreme |-> <<>>]

\* es: two hours of solar, one of wind (the wind file is shorter), no
\* offshore file, a one-hour extreme week without an offshore column and
\* with a solar factor at the threshold 0.001
DiskES ==
    [solar |-> << [time |-> Night, factor |-> 0], [time |-> Day, factor |-> 1000] >>,
     wind |-> << [time |-> Day, factor |-> 500] >>,
     offshore |-> <<>>,
     extreme |-> << [hour |-> 0, time |-> Night, solar |-> 1, wind |-> 200,
                     offshore |-> Undefined] >>]

\* gb: one hour of each series, with offshore
DiskGB ==
    [solar |-> << [time |-> Night, factor |-> 500] >>,
     wind |-> << [time |-> Night, factor |-> 1000] >>,
     offshore |-> << [time |-> Night, factor |-> 1000] >>,
     extreme |-> << [hour |-> 0, time |-> Day, solar |-> 0, wind |-> 0,
                     offshore |-> Some(500)] >>]

\* fr: two hours of solar and of wind, no offshore file, no extreme week
DiskFR ==
    [solar |-> << [time |-> Night, factor |-> 0], [time |-> Day, factor |-> 1000] >>,
     wind |-> << [time |-> Night, factor |-> 500], [time |-> Day, factor |-> 0] >>,
     offshore |-> <<>>,
     extreme |-> <<>>]

\* what the try block of loadData may leave in DATASETS[code]: the parsed
\* files, or the initial empty dataset when a file is missing
DiskOutcomes(code) ==
    CASE code = "es" -> {DiskES, EmptyDataset}
      [] code = "gb" -> {DiskGB}
      [] OTHER -> {DiskFR}

\* weight is optional (RepresentativeWeek.weight?: number)
WeekConf(startHour, weight, isExtreme, includeInStats) ==
    [startHour |-> startHour, weight |-> weight, isExtreme |-> isExtreme,
     includeInStats |-> includeInStats]

\* initial value of WEEK_CONFIGS
InitialWeekConfigs == [c \in Codes |-> <<>>]

\* representative_weeks.json as it may be found on disk: with a list for
\* every region, or with a list for gb only
WeeksFull ==
    [c \in Codes |->
        IF c = "es"
        THEN << WeekConf(1, Some(2), FALSE, TRUE), WeekConf(-1, Some(1), TRUE, FALSE) >>
        ELSE IF c = "gb"
        THEN << WeekConf(0, Some(3), FALSE, TRUE) >>
        ELSE << WeekConf(0, Some(2), FALSE, TRUE) >>]

WeeksNoES == [c \in {"gb"} |-> << WeekConf(0, Some(1), FALSE, TRUE) >>]

WeekFileOutcomes == {InitialWeekConfigs, WeeksFull, WeeksNoES}

-----------------------------------------------------------------------------
(* generateDemand and getWeekData *)

seasonFactor(month) ==
    IF month > 5 /\ month < 8 THEN 115
    ELSE IF month < 2 \/ month > 10 THEN 110
    ELSE 100

dailyFactor(hourOfDay) ==
    IF hourOfDay >= 13 /\ hourOfDay < 16 THEN 105
    ELSE IF hourOfDay >= 20 /\ hourOfDay < 22 THEN 110
    ELSE IF hourOfDay >= 7 /\ hourOfDay < 23 THEN 100
    ELSE 80

\* Math.round(baseDemand * seasonFactor * dailyFactor), factors in hundredths
generateDemand(hour, time, demandProfile) ==
    IF demandProfile = "baseload" THEN baseDemand
    ELSE LET hourOfDay == (time.hour + 1) % 24
         IN (baseDemand * seasonFactor(time.month) * dailyFactor(hourOfDay)
                + 5000) \div 10000

\* map[key] || map[fallback], as an optional value
Lookup(map, key, fallback) ==
    IF key \in DOMAIN map THEN Some(map[key])
    ELSE IF fallback \in DOMAIN map THEN Some(map[fallback])
    ELSE Undefined

\* series[i]?.factor || 0
FactorAt(series, i) ==
    IF i \in DOMAIN series THEN series[i].factor ELSE 0

\* series are 0-based in the code: hour i is element i + 1 here
getWeekData(datasets, weekConf, demandProfile, region) ==
    LET dataset == Lookup(datasets, region, "es")[1]
        n == Len(dataset.solar)
    IN IF weekConf.isExtreme
       THEN [k \in 1..Len(dataset.extreme) |->
               LET h == dataset.extreme[k]
               IN [hour |-> h.hour, time |-> h.time,
                   demand |-> generateDemand(h.hour, h.time, demandProfile),
                   solar |-> h.solar, wind |-> h.wind,
                   offshore |-> OrZero(h.offshore),
                   weight |-> weekConf.weight,
                   includeInStats |-> weekConf.includeInStats]]
       ELSE IF n = 0 THEN <<>>
       ELSE LET first == weekConf.startHour
                last == Min(first + HOURS_IN_WEEK, n) - 1
            IN [k \in 1..Max(0, last - first + 1) |->
                  LET i == first + k - 1
                  IN [hour |-> i, time |-> dataset.solar[i + 1].time,
                      demand |-> generateDemand(i, dataset.solar[i + 1].time,
                                                demandProfile),
                      solar |-> dataset.solar[i + 1].factor,
                      wind |-> FactorAt(dataset.wind, i + 1),
                      offshore |-> FactorAt(dataset.offshore, i + 1),
                      weight |-> weekConf.weight,
                      includeInStats |-> weekConf.includeInStats]]

-----------------------------------------------------------------------------
(* Technologies *)

\* tokens of a technology id between underscores, as they appear in the
\* names of the LP text
IdTokens(id) ==
    CASE id = "WIND_OFFSHORE" -> <<"WIND", "OFFSHORE">>
      [] id = "GAS_CCGT" -> <<"GAS", "CCGT">>
      [] id = "GAS_OCGT" -> <<"GAS", "OCGT">>
      [] OTHER -> <<id>>

\* r (1 + r)^n / ((1 + r)^n - 1) with r = wacc / 100
CRF(wacc, n) ==
    Rat(wacc * Pow(Percent + wacc, n),
        Percent * (Pow(Percent + wacc, n) - Pow(Percent, n)))

\* capex spread evenly over n years, whatever the discount rate
AnnualizeStraightLine(capex, wacc, n) ==
    IF n > 0 THEN RDiv(capex, RInt(n)) ELSE RInt(0)

\* capex annualised over n years at wacc percent, capex a rational
Annualize(capex, wacc, n) ==
    IF n > 0
    THEN IF wacc = 0 THEN RDiv(capex, RInt(n)) ELSE RMul(capex, CRF(wacc, n))
    ELSE RInt(0)

\* $/kW/yr
getAnnualFixedCost(tech) ==
    RAdd(Annualize(RInt(tech.capex), tech.wacc, tech.lifetime), RInt(tech.opexFixed))

\* the marginal cost without the fuel
MarginalCostNoFuel(tech) == tech.opexVar

\* $/MWh
getMarginalCost(tech) == tech.opexVar + tech.fuelCost

\* tech.duration || 4
DurationOf(tech) == OrElse(tech.duration, DefaultDuration)

\* $/MWh/yr of storage energy capacity (lines 187-200, repeated at 462-480)
StorageAnnualCostPerMwh(tech) ==
    LET costPerKwh == IF tech.capexPerKwh = Undefined \/ tech.capexPerKwh = Some(0)
                      THEN RDiv(RInt(tech.capex), RInt(DurationOf(tech)))
                      ELSE RInt(tech.capexPerKwh[1])
        annualizedCapexPerKwh == Annualize(costPerKwh, tech.wacc, tech.lifetime)
        opexPerKwh == RDiv(RInt(tech.opexFixed), RInt(DurationOf(tech)))
    IN RMul(RAdd(annualizedCapexPerKwh, opexPerKwh), RInt(KW_TO_MW))

\* a rational number of dollars as a money coefficient
MoneyOf(r) == MCoef((r.n * MoneyScale) \div r.d)

\* the coefficient of a technology's capacity variable in the objective
CapacityCost(tech) ==
    IF tech.type = "storage"
    THEN MoneyOf(StorageAnnualCostPerMwh(tech))
    ELSE MoneyOf(RMul(getAnnualFixedCost(tech), RInt(KW_TO_MW)))

\* fixedCapacity is carried in thousandths of a GW
FixedCapScale == 1000

\* the pin without the conversion from GW to MW
FixedCapacityUnconverted(tech) == OrZero(tech.fixedCapacity) \div FixedCapScale

\* (tech.fixedCapacity || 0) * 1000, in MW
FixedCapacityMW(tech) == (OrZero(tech.fixedCapacity) * GW_TO_MW) \div FixedCapScale

\* the availability factor of an hour for a technology id
ProfileOf(id, hourData) ==
    CASE id = "SOLAR" -> hourData.solar
      [] id = "WIND" -> hourData.wind
      [] id = "WIND_OFFSHORE" -> hourData.offshore
      [] OTHER -> 0

-----------------------------------------------------------------------------
(* The LP: names, terms, rows *)

VarC(id) == <<"c">> \o IdTokens(id)

VarE(id) == <<"e">> \o IdTokens(id)

VarG(id, i) == <<"g">> \o IdTokens(id) \o <<ToString(i)>>

VarCh(i) == <<"b", "ch", ToString(i)>>

VarDis(i) == <<"b", "dis", ToString(i)>>

VarSoc(i) == <<"b", "soc", ToString(i)>>

VarU(i) == <<"u", ToString(i)>>

Term(coef, var) == [coef |-> coef, var |-> var]

\* a row states: sum of coef * var, op, rhs -- all numbers of the code
\* multiplied by den
Row(name, terms, op, rhs, den) ==
    [name |-> name, terms |-> terms, op |-> op, rhs |-> rhs, den |-> den]

\* the elements of s, in order, without repetitions (insertion order of a Set)
Dedup(s) ==
    LET firsts == SelectSeq([i \in DOMAIN s |-> i],
                            LAMBDA i : \A j \in 1..(i - 1) : s[j] # s[i])
    IN [k \in DOMAIN firsts |-> s[firsts[k]]]

EnabledTechs(techs) == SelectSeq(techs, LAMBDA t : t.enabled)

\* enabledTechs.find(t => t.type === 'storage'), as an optional value
FindStorage(enabledTechs) ==
    LET st == SelectSeq(enabledTechs, LAMBDA t : t.type = "storage")
    IN IF st = <<>> THEN Undefined ELSE Some(Head(st))

-----------------------------------------------------------------------------
(* buildLPModel *)

\* the storage cycling cost 0.1 $/MWh of line 266, in money units
CYCLE_COST == 1

\* the part of the model a loop iteration contributes
Part(objective, constraints, vs) ==
    [objective |-> objective, constraints |-> constraints, vars |-> vs]

JoinParts(parts) ==
    Part(Flat([k \in DOMAIN parts |-> parts[k].objective]),
         Flat([k \in DOMAIN parts |-> parts[k].constraints]),
         Flat([k \in DOMAIN parts |-> parts[k].vars]))

\* the capacity loop without vars.add
CapacityPartUndeclared(tech) ==
    LET v == IF tech.type = "storage" THEN VarE(tech.id) ELSE VarC(tech.id)
    IN Part(<<Term(CapacityCost(tech), v)>>, <<>>, <<>>)

\* lines 183-219: capacity variable, its annualised cost and its pin
CapacityPart(tech) ==
    LET v == IF tech.type = "storage" THEN VarE(tech.id) ELSE VarC(tech.id)
        fixName == IF tech.type = "storage"
                   THEN <<"fix", "e">> \o IdTokens(tech.id)
                   ELSE <<"fix", "c">> \o IdTokens(tech.id)
    IN Part(<<Term(CapacityCost(tech), v)>>,
            IF tech.isFixed
            THEN <<Row(fixName, <<Term(1, v)>>, "=", FixedCapacityMW(tech), 1)>>
            ELSE <<>>,
            <<v>>)

\* the generation part with the marginal cost left unweighted
GenerationPartUnweighted(tech, i, hourData, weight) ==
    LET varGen == VarG(tech.id, i)
        marginalCost == getMarginalCost(tech)
        capName == <<"cap">> \o IdTokens(tech.id) \o <<ToString(i)>>
        profile == ProfileOf(tech.id, hourData)
    IN IF tech.type = "storage" THEN Part(<<>>, <<>>, <<>>)
       ELSE Part(IF marginalCost > 0
                 THEN <<Term(MCoef(marginalCost * MoneyScale), varGen)>>
                 ELSE <<>>,
                 IF tech.type = "renewable"
                 THEN IF profile > 1
                      THEN <<Row(capName, <<Term(ProfileScale, varGen),
                                            Term(-profile, VarC(tech.id))>>,
                                 "<=", 0, ProfileScale)>>
                      ELSE <<Row(capName, <<Term(1, varGen)>>, "<=", 0, 1)>>
                 ELSE <<Row(capName, <<Term(1, varGen), Term(-1, VarC(tech.id))>>,
                            "<=", 0, 1)>>,
                 <<varGen>>)

\* lines 227-255: generation variable, weighted marginal cost, capacity link
GenerationPart(tech, i, hourData, weight) ==
    LET varGen == VarG(tech.id, i)
        marginalCost == getMarginalCost(tech)
        capName == <<"cap">> \o IdTokens(tech.id) \o <<ToString(i)>>
        profile == ProfileOf(tech.id, hourData)
    IN IF tech.type = "storage" THEN Part(<<>>, <<>>, <<>>)
       ELSE Part(IF marginalCost > 0
                 THEN <<Term(MCoef(marginalCost * weight * MoneyScale), varGen)>>
                 ELSE <<>>,
                 IF tech.type = "renewable"
                 THEN IF profile > 1
                      THEN <<Row(capName, <<Term(ProfileScale, varGen),
                                            Term(-profile, VarC(tech.id))>>,
                                 "<=", 0, ProfileScale)>>
                      ELSE <<Row(capName, <<Term(1, varGen)>>, "<=", 0, 1)>>
                 ELSE <<Row(capName, <<Term(1, varGen), Term(-1, VarC(tech.id))>>,
                            "<=", 0, 1)>>,
                 <<varGen>>)

\* lines 257-287: storage variables, cycling cost, limits and dynamics
StoragePart(battTech, i, weight) ==
    LET vCh == VarCh(i)
        vDis == VarDis(i)
        vSoc == VarSoc(i)
        e == VarE(battTech.id)
        n == ToString(i)
    IN Part(<<Term(MCoef(CYCLE_COST * weight), vCh)>>,
            << Row(<<"ch", "lim", n>>,
                   <<Term(1, vCh), Term(-BATTERY_C_RATE, e)>>, "<=", 0, 1),
               Row(<<"dis", "lim", n>>,
                   <<Term(1, vDis), Term(-BATTERY_C_RATE, e)>>, "<=", 0, 1),
               Row(<<"soc", "cap", n>>, <<Term(1, vSoc), Term(-1, e)>>, "<=", 0, 1) >>
            \o (IF i % HOURS_IN_WEEK # 0
                THEN <<Row(<<"soc", "dyn", n>>,
                           <<Term(EffScale, vSoc), Term(-EffScale, VarSoc(i - 1)),
                             Term(-BATTERY_EFF, vCh), Term(EffScale, vDis)>>,
                           "=", 0, EffScale)>>
                ELSE IF i > 0
                THEN <<Row(<<"soc", "start", n>>,
                           <<Term(EffScale, vSoc), Term(-BATTERY_EFF, vCh),
                             Term(EffScale, vDis)>>,
                           "=", 0, EffScale)>>
                ELSE <<>>),
            <<vCh, vDis, vSoc>>)

\* the balance row without the charge of the storage
BalanceRowNoCharge(genVars, battTech, i, hourData) ==
    Row(<<"bal", ToString(i)>>,
        [k \in DOMAIN genVars |-> Term(1, genVars[k])]
        \o (IF battTech = Undefined THEN <<>> ELSE <<Term(1, VarDis(i))>>)
        \o <<Term(1, VarU(i))>>,
        "=", hourData.demand, 1)

\* lines 289-294: the balance row of hour i
BalanceRow(genVars, battTech, i, hourData) ==
    Row(<<"bal", ToString(i)>>,
        [k \in DOMAIN genVars |-> Term(1, genVars[k])]
        \o (IF battTech = Undefined THEN <<>>
            ELSE <<Term(1, VarDis(i)), Term(-1, VarCh(i))>>)
        \o <<Term(1, VarU(i))>>,
        "=", hourData.demand, 1)

\* one iteration over the hours with the storage rows written once per
\* enabled storage technology
HourPartEveryStorage(enabledTechs, battTech, i, hourData) ==
    LET weight == OrZero(hourData.weight)
        gens == JoinParts([k \in DOMAIN enabledTechs |->
                    GenerationPart(enabledTechs[k], i, hourData, weight)])
        stors == SelectSeq(enabledTechs, LAMBDA t : t.type = "storage")
        stor == JoinParts([k \in DOMAIN stors |-> StoragePart(stors[k], i, weight)])
        vUnserved == VarU(i)
    IN JoinParts(<< gens, stor,
          Part(<<Term(MCoef(VOLL * MoneyScale * weight), vUnserved)>>,
               <<BalanceRow(gens.vars, battTech, i, hourData)>>,
               <<vUnserved>>) >>)

\* lines 221-295: one iteration of the loop over the hours, i from 0
HourPart(enabledTechs, battTech, i, hourData) ==
    LET weight == OrZero(hourData.weight)
        gens == JoinParts([k \in DOMAIN enabledTechs |->
                    GenerationPart(enabledTechs[k], i, hourData, weight)])
        stor == IF battTech = Undefined THEN Part(<<>>, <<>>, <<>>)
                ELSE StoragePart(battTech[1], i, weight)
        vUnserved == VarU(i)
    IN JoinParts(<< gens, stor,
          Part(<<Term(MCoef(VOLL * MoneyScale * weight), vUnserved)>>,
               <<BalanceRow(gens.vars, battTech, i, hourData)>>,
               <<vUnserved>>) >>)

\* the model without the minimum-renewable-share row
NoMinRenewablesPart(enabledTechs, flatData, minRenewables) == Part(<<>>, <<>>, <<>>)

\* lines 305-336: the minimum-renewable-share row
MinRenewablesPart(enabledTechs, flatData, minRenewables) ==
    LET statHours == SelectSeq([k \in DOMAIN flatData |-> k],
                               LAMBDA k : flatData[k].includeInStats)
        nonRez == SelectSeq(enabledTechs,
                      LAMBDA t : t.type # "renewable" /\ t.type # "storage")
        nonRezGenTerms ==
            Flat([j \in DOMAIN nonRez |->
                    [m \in DOMAIN statHours |->
                        Term(OrZero(flatData[statHours[m]].weight) * Percent,
                             VarG(nonRez[j].id, statHours[m] - 1))]])
        totalAnnualDemand ==
            SeqSum([m \in DOMAIN statHours |->
                      flatData[statHours[m]].demand
                        * OrZero(flatData[statHours[m]].weight)])
        maxNonRez == totalAnnualDemand * (Percent - minRenewables)
    IN IF minRenewables > 0 /\ nonRezGenTerms # <<>>
       THEN Part(<<>>,
                 <<Row(<<"min", "res", "global">>, nonRezGenTerms, "<=",
                       maxNonRez, Percent)>>,
                 <<>>)
       ELSE Part(<<>>, <<>>, <<>>)

buildLPModel(techs, dataChunks, minRenewables) ==
    LET enabledTechs == EnabledTechs(techs)
        flatData == Flat(dataChunks)
        battTech == FindStorage(enabledTechs)
        all == JoinParts(
                 [k \in DOMAIN enabledTechs |-> CapacityPart(enabledTechs[k])]
                 \o [k \in DOMAIN flatData |->
                       HourPart(enabledTechs, battTech, k - 1, flatData[k])]
                 \o <<MinRenewablesPart(enabledTechs, flatData, minRenewables)>>)
        vs == Dedup(all.vars)
    IN [objective |-> all.objective, constraints |-> all.constraints,
        bounds |-> vs, vars |-> vs, flatData |-> flatData]

-----------------------------------------------------------------------------
(* The solver.  An LP solver returns, with status Optimal, a primal value   *)
(* per variable that satisfies every row and bound up to its feasibility    *)
(* tolerance and minimises the objective.  The values are searched on a     *)
(* grid made of the right-hand sides of the program and their differences,  *)
(* which contains a vertex optimum of the programs built here.              *)

\* every variable of the LP text: declared in Bounds or met in a row or in
\* the objective (the LP format creates a variable where it first meets it,
\* with the default bound >= 0)
AllVars(model) ==
    Dedup(model.vars
          \o [k \in DOMAIN model.objective |-> model.objective[k].var]
          \o Flat([k \in DOMAIN model.constraints |->
                     [j \in DOMAIN model.constraints[k].terms |->
                         model.constraints[k].terms[j].var]]))

\* the candidate values of the variables: the right-hand sides of the
\* program, what a pinned capacity yields through a capacity link, their
\* differences, and the capacities that yield those through a link
Grid(model) ==
    LET rows == Range(model.constraints)
        links == {r \in rows : /\ r.rhs = 0
                               /\ Len(r.terms) = 2
                               /\ r.terms[1].coef > 0
                               /\ r.terms[2].coef < 0}
        pins == {r.rhs \div r.den : r \in {q \in rows : q.op = "=" /\ Len(q.terms) = 1}}
        eq == {r.rhs \div r.den : r \in {q \in rows : q.op = "="}}
        le == UNION { {r.rhs \div t.coef : t \in {u \in Range(r.terms) : u.coef > 0}}
                      : r \in {q \in rows : q.op = "<=" /\ q.rhs > 0} }
        yield == UNION { {(v * (-r.terms[2].coef)) \div r.terms[1].coef : v \in pins}
                         : r \in links }
        base == {v \in {0} \cup eq \cup le \cup yield : v >= 0}
        diffs == base \cup {a - b : a \in base, b \in base}
        needs == UNION { {(v * r.terms[1].coef) \div (-r.terms[2].coef) : v \in diffs}
                         : r \in links }
    IN {v \in diffs \cup needs : v >= 0}

\* rows with their variables replaced by positions in `order`
IndexedRows(model, order) ==
    LET Pos(v) == CHOOSE k \in DOMAIN order : order[k] = v
    IN { [terms |-> [j \in DOMAIN r.terms |->
                        [coef |-> r.terms[j].coef, k |-> Pos(r.terms[j].var)]],
          op |-> r.op, rhs |-> r.rhs,
          last |-> LET ks == {Pos(r.terms[j].var) : j \in DOMAIN r.terms}
                   IN CHOOSE k \in ks : \A m \in ks : m <= k]
         : r \in Range(model.constraints) }

RowHolds(r, x) ==
    LET lhs == SeqSum([j \in DOMAIN r.terms |-> r.terms[j].coef * x[r.terms[j].k]])
    IN IF r.op = "=" THEN lhs = r.rhs ELSE lhs <= r.rhs

\* the values the k-th variable may take after x: the one value an equality
\* row that ends at k leaves to it, or else any value of the grid
Candidates(due, grid, k, x) ==
    LET eqs == {r \in due : r.op = "="}
    IN IF eqs = {} THEN grid
       ELSE LET r == CHOOSE q \in eqs : TRUE
                own == SeqSum([j \in DOMAIN r.terms |->
                          IF r.terms[j].k = k THEN r.terms[j].coef ELSE 0])
                others == SeqSum([j \in DOMAIN r.terms |->
                          IF r.terms[j].k = k THEN 0
                          ELSE r.terms[j].coef * x[r.terms[j].k]])
                rest == r.rhs - others
            IN IF own = 0 THEN grid
               ELSE IF own > 0 /\ rest >= 0 /\ rest % own = 0 THEN {rest \div own}
               ELSE IF own < 0 /\ rest <= 0 /\ (-rest) % (-own) = 0
               THEN {(-rest) \div (-own)}
               ELSE {}

\* the assignments of the n variables that extend x and satisfy every row
RECURSIVE Extend(_, _, _, _)
Extend(irows, grid, n, x) ==
    IF Len(x) = n THEN {x}
    ELSE LET k == Len(x) + 1
             due == {r \in irows : r.last = k}
         IN UNION { LET y == Append(x, val)
                    IN IF \A r \in due : RowHolds(r, y)
                       THEN Extend(irows, grid, n, y) ELSE {}
                    : val \in Candidates(due, grid, k, x) }

\* the value of the objective at x (a sequence of values, in `order`)
ObjectiveAt(model, order, x) ==
    LET Pos(v) == CHOOSE k \in DOMAIN order : order[k] = v
    IN MSum([k \in DOMAIN model.objective |->
                MTimesInt(model.objective[k].coef, x[Pos(model.objective[k].var)])])

\* the least element of a non-empty set of integers
Least(S) == CHOOSE a \in S : \A b \in S : a <= b

\* the optimal grid points, as functions from variable names to values
OptimalPoints(model) ==
    LET order == AllVars(model)
        feasible == Extend(IndexedRows(model, order), Grid(model), Len(order), <<>>)
        valued == {[x |-> x, obj |-> ObjectiveAt(model, order, x)] : x \in feasible}
        hi == Least({p.obj.hi : p \in valued})
        lo == Least({p.obj.lo : p \in {q \in valued : q.obj.hi = hi}})
        best == {p \in valued : p.obj.hi = hi /\ p.obj.lo = lo}
    IN IF feasible = {} THEN {}
       ELSE { [v \in Range(order) |->
                 p.x[CHOOSE k \in DOMAIN order : order[k] = v]] : p \in best }

\* what the tolerance may add to a solution: nothing, or up to MaxTolUnits
\* on one variable
Perturbations(names) ==
    {[v \in names |-> 0]}
    \cup { [v \in names |-> IF v = w THEN d ELSE 0] :
             w \in names, d \in (-MaxTolUnits..MaxTolUnits) \ {0} }

\* result.Columns[name].Primal for every variable
Columns(point, pert) == [v \in DOMAIN point |-> Q(point[v], pert[v])]

SolverReturned(status, columns) ==
    [kind |-> "returned", Status |-> status, Columns |-> columns]

SolverThrew(message) == [kind |-> "threw", message |-> <<message>>]

NoColumns == [v \in {} |-> QZero]

\* highsSolver.solve(lp): every outcome the solver may produce for the model
SolveOutcomes(model) ==
    LET opt == OptimalPoints(model)
    IN (IF opt = {} THEN {SolverReturned("Infeasible", NoColumns)}
        ELSE {SolverReturned("Optimal", Columns(x, p)) :
                 x \in opt, p \in Perturbations(Range(AllVars(model)))})
       \cup {SolverThrew("Unable to read LP model")}

-----------------------------------------------------------------------------
(* optimizeWithHiGHS: extraction of the SimulationResult *)

\* a JavaScript number that may be NaN: <<>> is NaN, <<v>> is v
NaN == <<>>

Num(v) == <<v>>

\* q * weight, NaN when the weight is undefined
QTimesWeight(q, weight) ==
    IF weight = Undefined THEN NaN ELSE Num(QScale(q, weight[1]))

NAdd(a, b) == IF a = NaN \/ b = NaN THEN NaN ELSE Num(QAdd(a[1], b[1]))

NSub(a, b) == IF a = NaN \/ b = NaN THEN NaN ELSE Num(QSub(a[1], b[1]))

RECURSIVE NSum(_)
NSum(s) ==
    IF s = <<>> THEN Num(QZero)
    ELSE IF Len(s) = 1 THEN NAdd(s[1], Num(QZero))
    ELSE LET half == Len(s) \div 2
         IN NAdd(NSum(SubSeq(s, 1, half)), NSum(SubSeq(s, half + 1, Len(s))))

\* coefficient * q * weight as money, NaN when the weight is undefined
MTimesWeight(units, q, weight) ==
    IF weight = Undefined THEN NaN
    ELSE Num(MTimesQ(MCoef(units * weight[1]), q))

NMAdd(a, b) == IF a = NaN \/ b = NaN THEN NaN ELSE Num(MAdd(a[1], b[1]))

RECURSIVE NMSum(_)
NMSum(s) ==
    IF s = <<>> THEN Num(MZero)
    ELSE IF Len(s) = 1 THEN NMAdd(s[1], Num(MZero))
    ELSE LET half == Len(s) \div 2
         IN NMAdd(NMSum(SubSeq(s, 1, half)), NMSum(SubSeq(s, half + 1, Len(s))))

\* solution[name]?.Primal || 0
Primal(solution, name) ==
    IF name \in DOMAIN solution THEN solution[name] ELSE QZero

\* the hourly fields solarGen, windGen, ... exist for these ids (lines 400-408)
GenFieldIds ==
    {"SOLAR", "WIND", "WIND_OFFSHORE", "NUCLEAR", "COAL", "GAS_CCGT", "GAS_OCGT",
     "HYDROGEN", "DIESEL"}

\* lines 369-378
\* the capacities read in the reverse order of the technologies
ExtractCapacitiesReversed(enabledTechs, solution) ==
    LET n == Len(enabledTechs)
    IN [id \in {enabledTechs[k].id : k \in DOMAIN enabledTechs} |->
          LET k == CHOOSE j \in DOMAIN enabledTechs : enabledTechs[j].id = id
              t == enabledTechs[n + 1 - k]
          IN IF t.type = "storage" THEN Primal(solution, VarE(t.id))
             ELSE Primal(solution, VarC(t.id))]

ExtractCapacities(enabledTechs, solution) ==
    [id \in {enabledTechs[k].id : k \in DOMAIN enabledTechs} |->
        LET t == enabledTechs[CHOOSE k \in DOMAIN enabledTechs :
                                 /\ enabledTechs[k].id = id
                                 /\ \A m \in DOMAIN enabledTechs :
                                        enabledTechs[m].id = id => m <= k]
        IN IF t.type = "storage" THEN Primal(solution, VarE(id))
           ELSE Primal(solution, VarC(id))]

\* the dead band 0.001 MW of line 419, in thousandths of a MW
CURTAILMENT_EPS == 1

\* curtailment counted for every generating technology, idle dispatchable
\* capacity included
CurtailmentOfAnyTech(t, row, capacities, gen) ==
    LET profile == IF t.type = "renewable" THEN ProfileOf(t.id, row) ELSE ProfileScale
        potential == QScale(capacities[t.id], profile)
        genScaled == QScale(gen, ProfileScale)
    IN IF QLess(QAdd(genScaled, Q(CURTAILMENT_EPS, 0)), potential)
       THEN QSub(potential, genScaled)
       ELSE QZero

\* lines 410-422: what one technology adds to the hour's curtailment, in
\* thousandths of a MW
CurtailmentOf(t, row, capacities, gen) ==
    IF t.type = "renewable"
    THEN LET profile == ProfileOf(t.id, row)
             potential == QScale(capacities[t.id], profile)
             genScaled == QScale(gen, ProfileScale)
         IN IF QLess(QAdd(genScaled, Q(CURTAILMENT_EPS, 0)), potential)
            THEN QSub(potential, genScaled)
            ELSE QZero
    ELSE QZero

\* lines 386-451: the hourly record of hour i (from 0)
ExtractHour(enabledTechs, capacities, solution, i, hourData) ==
    LET gens == SelectSeq(enabledTechs, LAMBDA t : t.type # "storage")
        batt == FindStorage(enabledTechs)
    IN [data |-> hourData,
        gen |-> [id \in {gens[k].id : k \in DOMAIN gens} \cap GenFieldIds |->
                    Primal(solution, VarG(id, i))],
        curtailment |->
            QSum([k \in DOMAIN gens |->
                    CurtailmentOf(gens[k], hourData, capacities,
                                  Primal(solution, VarG(gens[k].id, i)))]),
        battery |-> IF batt = Undefined THEN Undefined
                    ELSE Some([batteryCharge |-> Primal(solution, VarCh(i)),
                               batteryDischarge |-> Primal(solution, VarDis(i)),
                               batterySoC |-> Primal(solution, VarSoc(i))]),
        shortfall |-> Primal(solution, VarU(i))]

\* every hour, in the statistics or not
EveryRow(flatData) == [k \in DOMAIN flatData |-> k]

\* the hours that count in the statistics (row.includeInStats)
StatRows(flatData) ==
    SelectSeq([k \in DOMAIN flatData |-> k], LAMBDA k : flatData[k].includeInStats)

\* lines 424-441: weighted generation per technology, and BATTERY
ExtractMix(enabledTechs, solution, flatData) ==
    LET gens == SelectSeq(enabledTechs, LAMBDA t : t.type # "storage")
        batt == FindStorage(enabledTechs)
        stat == StatRows(flatData)
        keys == IF stat = <<>> THEN {}
                ELSE {gens[k].id : k \in DOMAIN gens}
                     \cup (IF batt = Undefined THEN {} ELSE {"BATTERY"})
        isGen(id) == \E k \in DOMAIN gens : gens[k].id = id
    IN [id \in keys |->
          IF isGen(id)
          THEN NAdd(NSum([m \in DOMAIN stat |->
                            QTimesWeight(Primal(solution, VarG(id, stat[m] - 1)),
                                         flatData[stat[m]].weight)]),
                    IF id = "BATTERY" /\ batt # Undefined
                    THEN NSum([m \in DOMAIN stat |->
                            QTimesWeight(Primal(solution, VarDis(stat[m] - 1)),
                                         flatData[stat[m]].weight)])
                    ELSE Num(QZero))
          ELSE NSum([m \in DOMAIN stat |->
                        QTimesWeight(Primal(solution, VarDis(stat[m] - 1)),
                                     flatData[stat[m]].weight)])]

\* lines 382, 427
ExtractCo2(enabledTechs, solution, flatData) ==
    LET gens == SelectSeq(enabledTechs, LAMBDA t : t.type # "storage")
        stat == StatRows(flatData)
    IN NSum(Flat([m \in DOMAIN stat |->
                    [k \in DOMAIN gens |->
                        QTimesWeight(
                            QScale(Primal(solution, VarG(gens[k].id, stat[m] - 1)),
                                   gens[k].co2),
                            flatData[stat[m]].weight)]]))

\* lines 389-391
ExtractAnnualDemand(flatData) ==
    LET stat == StatRows(flatData)
    IN NSum([m \in DOMAIN stat |->
                QTimesWeight(Q(flatData[stat[m]].demand, 0), flatData[stat[m]].weight)])

\* lines 446-448
ExtractAnnualUnserved(solution, flatData) ==
    LET stat == StatRows(flatData)
    IN NSum([m \in DOMAIN stat |->
                QTimesWeight(Primal(solution, VarU(stat[m] - 1)),
                             flatData[stat[m]].weight)])

\* lines 456-483: the storage cost per MWh of energy capacity, once more
ReportedStorageCostPerMwh(t) ==
    LET duration == OrElse(t.duration, DefaultDuration)
        costPerKwh == IF t.capexPerKwh = Undefined \/ t.capexPerKwh = Some(0)
                      THEN RDiv(RInt(t.capex), RInt(duration))
                      ELSE RInt(t.capexPerKwh[1])
        annualizedCapexPerKwh == Annualize(costPerKwh, t.wacc, t.lifetime)
        opexPerKwh == RDiv(RInt(t.opexFixed), RInt(duration))
    IN RMul(RAdd(annualizedCapexPerKwh, opexPerKwh), RInt(KW_TO_MW))

\* a total cost without the fixed costs
NoFixedCost(enabledTechs, capacities) == MZero

\* lines 453-488
ExtractFixedCost(enabledTechs, capacities) ==
    MSum([k \in DOMAIN enabledTechs |->
            LET t == enabledTechs[k]
            IN IF t.type = "storage"
               THEN MTimesQ(MoneyOf(ReportedStorageCostPerMwh(t)), capacities[t.id])
               ELSE MTimesQ(MoneyOf(RMul(getAnnualFixedCost(t), RInt(KW_TO_MW))),
                            capacities[t.id])])

\* the literals of lines 504 and 506: 0.1 in money units, and 20000000
REPORTED_CYCLE_COST == 1

\* a penalty that no longer matches the one of the objective
StaleVoll == VOLL \div 2

REPORTED_VOLL == 20000000

\* lines 490-507
ExtractVariableCost(enabledTechs, solution, flatData) ==
    LET gens == SelectSeq(enabledTechs, LAMBDA t : t.type # "storage")
        batt == FindStorage(enabledTechs)
        stat == StatRows(flatData)
    IN NMSum(Flat([m \in DOMAIN stat |->
          LET i == stat[m] - 1
              w == flatData[stat[m]].weight
          IN [k \in DOMAIN gens |->
                 MTimesWeight(getMarginalCost(gens[k]) * MoneyScale,
                              Primal(solution, VarG(gens[k].id, i)), w)]
             \o (IF batt = Undefined THEN <<>>
                 ELSE <<MTimesWeight(REPORTED_CYCLE_COST,
                                     Primal(solution, VarCh(i)), w)>>)
             \o <<MTimesWeight(REPORTED_VOLL * MoneyScale,
                                Primal(solution, VarU(i)), w)>>]))

\* the floor 0.1 of line 510, in tenths of a MWh
SERVED_FLOOR == 1

ServedScale == 10

\* the served energy without the floor
TotalServedUnclamped(annualDemand, annualUnserved) ==
    LET diff == NSub(annualDemand, annualUnserved)
    IN IF diff = NaN THEN NaN ELSE Num(QScale(diff[1], ServedScale))

\* Math.max(0.1, annualDemand - annualUnserved), in tenths of a MWh
TotalServed(annualDemand, annualUnserved) ==
    LET diff == NSub(annualDemand, annualUnserved)
    IN IF diff = NaN THEN NaN
       ELSE Num(QMax(Q(SERVED_FLOOR, 0), QScale(diff[1], ServedScale)))

\* reportingTotalCost / totalServed: the quotient is carried as the pair
\* (num money units) / (den tenths of a MWh), which is in $/MWh
Quotient(cost, served) ==
    IF cost = NaN \/ served = NaN THEN NaN
    ELSE Num([num |-> cost[1], den |-> served[1]])

\* lines 366-513, after a solve with status Optimal
ExtractResult(techs, solution, flatData) ==
    LET enabledTechs == EnabledTechs(techs)
        capacities == ExtractCapacities(enabledTechs, solution)
        annualDemand == ExtractAnnualDemand(flatData)
        annualUnserved == ExtractAnnualUnserved(solution, flatData)
        reportingTotalCost ==
            NMAdd(Num(ExtractFixedCost(enabledTechs, capacities)),
                  ExtractVariableCost(enabledTechs, solution, flatData))
        totalServed == TotalServed(annualDemand, annualUnserved)
    IN [hourly |-> [k \in DOMAIN flatData |->
                      ExtractHour(enabledTechs, capacities, solution, k - 1,
                                  flatData[k])],
        totalCost |-> reportingTotalCost,
        lcoe |-> Quotient(reportingTotalCost, totalServed),
        totalCo2 |-> ExtractCo2(enabledTechs, solution, flatData),
        mix |-> ExtractMix(enabledTechs, solution, flatData),
        capacities |-> capacities,
        unservedEnergy |-> annualUnserved,
        annualServed |-> totalServed]

-----------------------------------------------------------------------------
(* Requests: the technologies a caller may post.  Costs are small numbers   *)
(* so that sums of money stay exact.                                        *)

Tech(id, type, capex, opexFixed, opexVar, fuelCost, lifetime, wacc, co2) ==
    [id |-> id, type |-> type, capex |-> capex, capexPerKwh |-> Undefined,
     duration |-> Undefined, opexFixed |-> opexFixed, opexVar |-> opexVar,
     fuelCost |-> fuelCost, lifetime |-> lifetime, wacc |-> wacc, co2 |-> co2,
     enabled |-> TRUE, isFixed |-> FALSE, fixedCapacity |-> Undefined]

Solar == Tech("SOLAR", "renewable", 2, 0, 0, 0, 1, 0, 0)

GasCcgt == Tech("GAS_CCGT", "dispatchable", 3, 0, 1, 1, 2, 100, 2)

Battery == Tech("BATTERY", "storage", 8, 4, 0, 0, 2, 0, 0)

Disabled(tech) == [tech EXCEPT !.enabled = FALSE]

\* pinned by the user at gw GW
Pinned(tech, gw) ==
    [tech EXCEPT !.isFixed = TRUE, !.fixedCapacity = Some(gw * FixedCapScale)]

\* pinned at 0.001 GW
PinnedTiny(tech) == [tech EXCEPT !.isFixed = TRUE, !.fixedCapacity = Some(1)]

SolarOptions == {Disabled(Solar), Solar, Pinned(Solar, 40), PinnedTiny(Solar)}

GasOptions == {Disabled(GasCcgt), GasCcgt, Pinned(GasCcgt, 10), Pinned(GasCcgt, -1)}

BatteryOptions == {Disabled(Battery), Pinned(Battery, 10)}

\* Object.values(techs), in insertion order; at least one of the three
\* technologies is switched off
TechLists ==
    {l \in {<<s, b, g>> : s \in SolarOptions, b \in BatteryOptions, g \in GasOptions} :
        \E k \in DOMAIN l : ~l[k].enabled}

RequestShapes ==
    { [demandProfile |-> "baseload", region |-> "es", minRenewables |-> 0],
      [demandProfile |-> "baseload", region |-> "es", minRenewables |-> 50],
      [demandProfile |-> "spain", region |-> "gb", minRenewables |-> 100],
      [demandProfile |-> "spain", region |-> "zz", minRenewables |-> 0] }

\* a dispatchable technology without capex: alone with a marginal cost,
\* with fixed O&M as well, and pinned by the user at 10 GW
ZeroCapexGas ==
    { [GasCcgt EXCEPT !.capex = 0],
      [GasCcgt EXCEPT !.capex = 0, !.opexFixed = 1],
      Pinned([GasCcgt EXCEPT !.capex = 0], 10) }

\* flat demand met by one technology
FlatRequests ==
    { [techs |-> Some(<<Disabled(Solar), Disabled(Battery), g>>),
       demandProfile |-> "baseload", region |-> "fr", minRenewables |-> m] :
        g \in ZeroCapexGas \cup {GasCcgt}, m \in {0, 50} }

\* req.body, after the defaults of line 518
Requests ==
    { [techs |-> Some(t), demandProfile |-> sh.demandProfile,
       region |-> sh.region, minRenewables |-> sh.minRenewables] :
        t \in TechLists, sh \in RequestShapes }
    \cup FlatRequests
    \cup { [techs |-> Undefined, demandProfile |-> "spain", region |-> "es",
            minRenewables |-> 0] }

-----------------------------------------------------------------------------
(* The HTTP handler of POST /api/optimize *)

Json(status, body) == [status |-> status, body |-> body]

ErrorBody(message) == [error |-> message]

\* the message of the TypeError of weeks.map when weeks is undefined
MapOfUndefined == "Cannot read properties of undefined (reading 'map')"

\* `Solver failed: ${result.Status}`
SolverFailed(status) == <<"Solver failed: ", status>>

\* optimizeWithHiGHS after the solve: throw or extract (lines 361-513)
AfterSolve(techs, model, outcome) ==
    IF outcome.kind = "threw" THEN [kind |-> "threw", message |-> outcome.message]
    ELSE IF outcome.Status # "Optimal"
    THEN [kind |-> "threw", message |-> SolverFailed(outcome.Status)]
    ELSE [kind |-> "returned",
          value |-> ExtractResult(techs, outcome.Columns, model.flatData)]

\* the handler without its try/catch: the exception reaches the default
\* error handler of the framework, which answers with an HTML page
RespondUncaught(after) ==
    IF after.kind = "threw" THEN Json(500, [html |-> after.message])
    ELSE Json(200, after.value)

\* lines 517-530, given what the solver does
Respond(after) ==
    IF after.kind = "threw" THEN Json(500, ErrorBody(after.message))
    ELSE Json(200, after.value)

-----------------------------------------------------------------------------
(* The server process: loadData, listen, and one request at a time (the     *)
(* handler is synchronous, so requests never interleave).                   *)

Init ==
    /\ pc = "boot"
    /\ DATASETS = [c \in Codes |-> EmptyDataset]
    /\ WEEK_CONFIGS = InitialWeekConfigs
    /\ highsSolver = FALSE
    /\ request = NoValue
    /\ lp = NoValue
    /\ solverResult = NoValue
    /\ response = NoValue
    /\ cpc = "idle"
    /\ cargs = NoValue
    /\ cmodel = NoValue
    /\ csolution = NoValue
    /\ cresult = NoValue
    /\ loads = <<>>
    /\ built = NoValue
    /\ runs = NoValue
    /\ priced = NoValue
    /\ inputs = 0
    /\ timer = Some(0)
    /\ inflight = {}
    /\ simulationResult = NoValue
    /\ isSimulating = FALSE
    /\ error = NoValue

\* loadData (lines 37-78): each file may be found or not; then the solver
\* is initialised
LoadData ==
    /\ pc = "boot"
    /\ \E ds \in [Codes -> UNION {DiskOutcomes(c) : c \in Codes}] :
          /\ \A c \in Codes : ds[c] \in DiskOutcomes(c)
          /\ DATASETS' = ds
    /\ WEEK_CONFIGS' \in WeekFileOutcomes
    /\ highsSolver' = TRUE
    /\ pc' = "loaded"
    /\ UNCHANGED <<request, lp, solverResult, response, clientVars, callVars, appVars>>

\* loadData up to line 76, where `await highs()` rejects: highsSolver stays
\* null, the promise of loadData is rejected and its continuation (lines
\* 551-555) is never run
SolverInitFails ==
    /\ pc = "boot"
    /\ \E ds \in [Codes -> UNION {DiskOutcomes(c) : c \in Codes}] :
          /\ \A c \in Codes : ds[c] \in DiskOutcomes(c)
          /\ DATASETS' = ds
    /\ WEEK_CONFIGS' \in WeekFileOutcomes
    /\ pc' = "failed"
    /\ UNCHANGED <<highsSolver, request, lp, solverResult, response, clientVars,
                   callVars, appVars>>

\* app.listen called at once, without waiting for loadData
ListenAtOnce ==
    /\ pc \in {"boot", "loaded"}
    /\ pc' = "listening"
    /\ UNCHANGED <<DATASETS, WEEK_CONFIGS, highsSolver, request, lp, solverResult,
                   response, clientVars, callVars, appVars>>

\* loadData().then(() => app.listen(...)) (lines 551-555)
Listen ==
    /\ pc = "loaded"
    /\ pc' = "listening"
    /\ UNCHANGED <<DATASETS, WEEK_CONFIGS, highsSolver, request, lp, solverResult,
                   response, clientVars, callVars, appVars>>

\* what a caller gets who connects before app.listen: no HTTP response, the
\* connection is refused
ConnectionRefused == Json(0, ErrorBody(<<"ECONNREFUSED">>))

\* a POST /api/optimize is sent while loadData is still running, or before
\* its continuation has called app.listen (lines 551-555): no socket is
\* open, the handler is not run
ConnectEarly ==
    /\ pc \in {"boot", "loaded"}
    /\ \E req \in Requests : request' = Some(req)
    /\ response' = Some(ConnectionRefused)
    /\ pc' = "refused"
    /\ UNCHANGED <<DATASETS, WEEK_CONFIGS, highsSolver, lp, solverResult, clientVars, callVars, appVars>>

\* the refused caller goes away; the start of the server goes on
GiveUp ==
    /\ pc = "refused"
    /\ request' = NoValue
    /\ response' = NoValue
    /\ pc' = (IF highsSolver THEN "loaded" ELSE "boot")
    /\ UNCHANGED <<DATASETS, WEEK_CONFIGS, highsSolver, lp, solverResult, clientVars, callVars, appVars>>

\* a POST /api/optimize arrives
Receive ==
    /\ pc = "listening"
    /\ \E req \in Requests : request' = Some(req)
    /\ pc' = "received"
    /\ UNCHANGED <<DATASETS, WEEK_CONFIGS, highsSolver, lp, solverResult, response,
                   clientVars, callVars, appVars>>

\* the handler, lines 516-531, with everything it calls
HandleOptimize ==
    /\ pc = "received"
    /\ LET req == request[1]
           weeks == Lookup(WEEK_CONFIGS, req.region, "es")
       IN IF req.techs = Undefined
          THEN /\ response' = Some(Json(400, ErrorBody(<<"Missing techs">>)))
               /\ UNCHANGED <<lp, solverResult>>
          ELSE IF ~highsSolver
          THEN /\ response' = Some(Json(503, ErrorBody(<<"Solver not ready">>)))
               /\ UNCHANGED <<lp, solverResult>>
          ELSE IF weeks = Undefined
          THEN /\ response' = Some(Json(500, ErrorBody(<<MapOfUndefined>>)))
               /\ UNCHANGED <<lp, solverResult>>
          ELSE LET dataChunks ==
                       [k \in DOMAIN weeks[1] |->
                           getWeekData(DATASETS, weeks[1][k], req.demandProfile,
                                       req.region)]
                   model == buildLPModel(req.techs[1], dataChunks, req.minRenewables)
               IN \E outcome \in SolveOutcomes(model) :
                     /\ lp' = Some(model)
                     /\ solverResult' = Some(outcome)
                     /\ response' =
                          Some(Respond(AfterSolve(req.techs[1], model, outcome)))
    /\ pc' = "responded"
    /\ UNCHANGED <<DATASETS, WEEK_CONFIGS, highsSolver, request, clientVars, callVars, appVars>>

\* a handler whose model and solver result are kept in module-level
\* variables after the response
FinishKeepingModel ==
    /\ pc = "responded"
    /\ request' = NoValue
    /\ response' = NoValue
    /\ pc' = "listening"
    /\ UNCHANGED <<DATASETS, WEEK_CONFIGS, highsSolver, lp, solverResult, clientVars, callVars, appVars>>

\* the response is sent; the handler keeps nothing
Finish ==
    /\ pc = "responded"
    /\ request' = NoValue
    /\ lp' = NoValue
    /\ solverResult' = NoValue
    /\ response' = NoValue
    /\ pc' = "listening"
    /\ UNCHANGED <<DATASETS, WEEK_CONFIGS, highsSolver, clientVars, callVars, appVars>>

-----------------------------------------------------------------------------
(* The client-side implementation, optimizeCapacityExpansion of             *)
(* utils/optimizer.  It is a pure function of its arguments.  Its objective *)
(* is carried multiplied by WEEKS_PER_YEAR, which keeps the coefficients    *)
(* whole and does not move the optimum.                                     *)

\* the 52 of getWeeklyFixedCost
WEEKS_PER_YEAR == 52

CLIENT_VOLL == 10000

BATTERY_DURATION == 4

\* the charge cost 0.1 of the client, in money units
CLIENT_CHARGE_COST == 1

\* Object.values(TechType)
TechTypes ==
    {"SOLAR", "WIND", "WIND_OFFSHORE", "BATTERY", "NUCLEAR", "COAL", "GAS_CCGT",
     "GAS_OCGT", "HYDROGEN", "DIESEL"}

\* WEEKS_PER_YEAR * getWeeklyFixedCost(tech) * 1000 * WEEKS_COUNT
ClientCapacityCost(tech, weeksCount) ==
    MoneyOf(RMul(getAnnualFixedCost(tech), RInt(KW_TO_MW * weeksCount)))

\* tech.id === SOLAR ? hourData.solar : hourData.wind
ClientProfile(id, hourData) ==
    IF id = "SOLAR" THEN hourData.solar ELSE hourData.wind

\* lines 154-303: the rows and variables of hour i
ClientHourPart(enabledTechs, i, hourData, totalHours) ==
    LET n == ToString(i)
        gens == SelectSeq(enabledTechs, LAMBDA t : t.type # "storage")
        battTech == FindStorage(enabledTechs)
        genPart(t) ==
            Part(<<Term(MCoef(WEEKS_PER_YEAR * getMarginalCost(t) * MoneyScale),
                        VarG(t.id, i))>>,
                 <<Row(<<"cap">> \o IdTokens(t.id) \o <<n>>,
                       <<Term(ProfileScale, VarG(t.id, i)),
                         Term(-(IF t.type = "renewable"
                                THEN ClientProfile(t.id, hourData)
                                ELSE ProfileScale), VarC(t.id))>>,
                       "<=", 0, ProfileScale)>>,
                 <<VarG(t.id, i)>>)
        storPart ==
            IF battTech = Undefined THEN Part(<<>>, <<>>, <<>>)
            ELSE LET c == VarC(battTech[1].id)
                 IN Part(<<Term(MCoef(WEEKS_PER_YEAR * CLIENT_CHARGE_COST), VarCh(i))>>,
                         << Row(<<"soc", "dyn", n>>,
                                <<Term(-BATTERY_EFF, VarCh(i)), Term(EffScale, VarDis(i))>>
                                \o (IF i % HOURS_IN_WEEK # 0
                                    THEN <<Term(-EffScale, VarSoc(i - 1))>>
                                    ELSE IF i + HOURS_IN_WEEK - 1 < totalHours
                                    THEN <<Term(-EffScale,
                                                VarSoc(i + HOURS_IN_WEEK - 1))>>
                                    ELSE <<>>)
                                \o <<Term(EffScale, VarSoc(i))>>,
                                "=", 0, EffScale),
                            Row(<<"soc", "max", n>>,
                                <<Term(1, VarSoc(i)), Term(-BATTERY_DURATION, c)>>,
                                "<=", 0, 1),
                            Row(<<"ch", "lim", n>>,
                                <<Term(1, VarCh(i)), Term(-1, c)>>, "<=", 0, 1),
                            Row(<<"dis", "lim", n>>,
                                <<Term(1, VarDis(i)), Term(-1, c)>>, "<=", 0, 1) >>,
                         <<VarCh(i), VarDis(i), VarSoc(i)>>)
        balance ==
            [k \in DOMAIN gens |-> Term(1, VarG(gens[k].id, i))]
            \o (IF battTech = Undefined THEN <<>>
                ELSE <<Term(-1, VarCh(i)), Term(1, VarDis(i))>>)
            \o <<Term(1, VarU(i))>>
    IN JoinParts([k \in DOMAIN gens |-> genPart(gens[k])]
                 \o << storPart,
                       Part(<<Term(MCoef(WEEKS_PER_YEAR * CLIENT_VOLL * MoneyScale),
                                   VarU(i))>>,
                            <<Row(<<"bal", n>>, balance, "=", hourData.demand, 1)>>,
                            <<VarU(i)>>) >>)

\* lines 123-303: the model handed to javascript-lp-solver
ClientModel(techs, dataChunks) ==
    LET enabledTechs == EnabledTechs(techs)
        flattenedData == Flat(dataChunks)
        caps == [k \in DOMAIN enabledTechs |->
                   Part(<<Term(ClientCapacityCost(enabledTechs[k], Len(dataChunks)),
                               VarC(enabledTechs[k].id))>>,
                        <<>>, <<VarC(enabledTechs[k].id)>>)]
        all == JoinParts(caps
                 \o [k \in DOMAIN flattenedData |->
                       ClientHourPart(enabledTechs, k - 1, flattenedData[k],
                                      Len(flattenedData))])
        vs == Dedup(all.vars)
    IN [objective |-> all.objective, constraints |-> all.constraints,
        bounds |-> vs, vars |-> vs, flatData |-> flattenedData]

\* an amount of money divided by `per`
Cost(money, per) == [money |-> money, per |-> per]

\* the result of the guard of lines 101-121
ZeroResult ==
    [hourly |-> <<>>, totalCost |-> Cost(MZero, 1),
     lcoe |-> [num |-> Cost(MZero, 1), den |-> Q(1, 0)],
     totalCo2 |-> QZero, mix |-> [id \in TechTypes |-> QZero],
     capacities |-> [id \in TechTypes |-> QZero], unservedEnergy |-> QZero]

\* the result of the catch block of lines 385-396
CaughtResult ==
    [hourly |-> <<>>, totalCost |-> Cost(MZero, 1),
     lcoe |-> [num |-> Cost(MZero, 1), den |-> Q(1, 0)],
     totalCo2 |-> QZero, mix |-> [id \in {} |-> QZero],
     capacities |-> [id \in {} |-> QZero], unservedEnergy |-> QZero]

\* lines 310-383: the result read from a solution (variable -> value)
ClientExtract(techs, model, solution) ==
    LET enabledTechs == EnabledTechs(techs)
        gens == SelectSeq(enabledTechs, LAMBDA t : t.type # "storage")
        batt == FindStorage(enabledTechs)
        flat == model.flatData
        val(name) == Primal(solution, name)
        isCap(id) == \E k \in DOMAIN enabledTechs : enabledTechs[k].id = id
        capacities == [id \in TechTypes |-> IF isCap(id) THEN val(VarC(id)) ELSE QZero]
        curtail(t, i, row) ==
            IF t.type = "renewable"
            THEN QMax(QZero, QSub(QScale(capacities[t.id], ClientProfile(t.id, row)),
                                  QScale(val(VarG(t.id, i)), ProfileScale)))
            ELSE QZero
        hourly == [k \in DOMAIN flat |->
                     [data |-> flat[k],
                      gen |-> [id \in {gens[j].id : j \in DOMAIN gens} |->
                                  val(VarG(id, k - 1))],
                      curtailment |-> QSum([j \in DOMAIN gens |->
                                              curtail(gens[j], k - 1, flat[k])]),
                      battery |-> IF batt = Undefined THEN Undefined
                                  ELSE Some([batteryCharge |-> val(VarCh(k - 1)),
                                             batteryDischarge |-> val(VarDis(k - 1)),
                                             batterySoC |-> val(VarSoc(k - 1))]),
                      shortfall |-> val(VarU(k - 1))]]
        totalDemand == SeqSum([k \in DOMAIN flat |-> flat[k].demand])
        unservedEnergy == QSum([k \in DOMAIN hourly |-> hourly[k].shortfall])
        totalCost ==
            Cost(MSum([k \in DOMAIN model.objective |->
                        MTimesQ(model.objective[k].coef, val(model.objective[k].var))]),
                 WEEKS_PER_YEAR)
        totalServed == QMax(Q(SERVED_FLOOR, 0),
                            QScale(QSub(Q(totalDemand, 0), unservedEnergy), ServedScale))
    IN [hourly |-> hourly, totalCost |-> totalCost,
        lcoe |-> [num |-> totalCost, den |-> totalServed],
        totalCo2 |-> QSum(Flat([k \in DOMAIN flat |->
                        [j \in DOMAIN gens |->
                            QScale(val(VarG(gens[j].id, k - 1)), gens[j].co2)]])),
        mix |-> [id \in TechTypes |->
                   QAdd(IF \E j \in DOMAIN gens : gens[j].id = id
                        THEN QSum([k \in DOMAIN flat |-> val(VarG(id, k - 1))])
                        ELSE QZero,
                        IF id = "BATTERY" /\ batt # Undefined
                        THEN QSum([k \in DOMAIN flat |-> val(VarDis(k - 1))])
                        ELSE QZero)],
        capacities |-> capacities, unservedEnergy |-> unservedEnergy]

\* what javascript-lp-solver may do with the model: return an optimum, or throw
ClientSolveOutcomes(model) ==
    {[kind |-> "returned", solution |-> Columns(x, [v \in DOMAIN x |-> 0])] :
        x \in OptimalPoints(model)}
    \cup {SolverThrew("Solver Error")}

Hour(demand, solar, wind) == [demand |-> demand, solar |-> solar, wind |-> wind]

\* the dataChunks a caller may pass: none, no chunk, or chunks of a few hours
ClientData ==
    { Undefined,
      Some(<<>>),
      Some(<< <<>> >>),
      Some(<< <<Hour(100, 1000, 0)>> >>),
      Some(<< <<Hour(100, 500, 0), Hour(50, 0, 1000)>> >>),
      Some(<< <<Hour(100, 1000, 0)>>, <<Hour(0, 0, 0)>> >>),
      Some(<< <<Hour(50, 0, 0)>>, <<Hour(50, 1000, 500)>> >>),
      Some(<< <<Hour(100, 0, 500)>> >>),
      Some(<< <<Hour(50, 500, 500), Hour(100, 1000, 0)>> >>),
      Some(<< <<Hour(0, 1000, 1000)>> >>),
      Some(<< <<Hour(100, 1, 0)>> >>) }

ClientTechLists ==
    { <<Disabled(Solar), Disabled(Battery), Disabled(GasCcgt)>>,
      <<Solar, Disabled(Battery), Disabled(GasCcgt)>>,
      <<Pinned(Solar, 40), Disabled(Battery), GasCcgt>>,
      <<Disabled(Solar), Disabled(Battery), GasCcgt>>,
      <<Solar, Disabled(Battery), GasCcgt>>,
      <<Disabled(Solar), Battery, Disabled(GasCcgt)>> }

\* how a call ends: with a value returned to the caller, or with an error
\* thrown to it
Returned(value) == [kind |-> "returned", value |-> value]

Thrown(message) == [kind |-> "threw", message |-> message]

\* optimizeCapacityExpansion(techs, dataChunks), lines 96-397, as one step
ClientCall ==
    /\ cpc = "idle"
    /\ \E techs \in ClientTechLists, dataChunks \in ClientData :
          /\ cargs' = Some([techs |-> techs, dataChunks |-> dataChunks])
          /\ IF dataChunks = Undefined \/ dataChunks = Some(<<>>)
             THEN /\ cresult' = Some(Returned(ZeroResult))
                  /\ UNCHANGED <<cmodel, csolution>>
             ELSE LET model == ClientModel(techs, dataChunks[1])
                  IN \E outcome \in ClientSolveOutcomes(model) :
                        /\ cmodel' = Some(model)
                        /\ csolution' = Some(outcome)
                        /\ cresult' =
                             Some(IF outcome.kind = "threw" THEN Returned(CaughtResult)
                                  ELSE Returned(ClientExtract(techs, model,
                                                              outcome.solution)))
    /\ cpc' = "returned"
    /\ UNCHANGED <<serverVars, callVars, appVars>>

\* the caller has the result; the function keeps nothing
ClientDone ==
    /\ cpc = "returned"
    /\ cargs' = NoValue
    /\ cmodel' = NoValue
    /\ csolution' = NoValue
    /\ cresult' = NoValue
    /\ cpc' = "idle"
    /\ UNCHANGED <<serverVars, callVars, appVars>>

ClientNext ==
    \/ ClientCall
    \/ ClientDone

ClientSpec == Init /\ [][ClientNext]_vars

-----------------------------------------------------------------------------
(* The client-side data loader, loadSpainData of utils/dataLoader: it       *)
(* fetches the two CSV files and makes up the demand of every hour.         *)

\* how many calls of loadSpainData are followed
MaxLoads == 2

\* ./data/solar_2019.csv and ./data/wind_2019.csv as parsed; the wind file
\* is one row shorter
SolarCsv == << [time |-> Night, factor |-> 0], [time |-> Day, factor |-> 1000] >>

WindCsv == << [time |-> Night, factor |-> 500] >>

\* values of Math.random(), in thousandths: 0 <= r < 1
RandomDraws == {0, 500, 999}

\* Math.round(baseDemand * seasonFactor * dailyFactor * (0.95 + r * 0.1)),
\* with the factors in hundredths and r in thousandths
RandomDemand(time, r) ==
    ((baseDemand \div 10000) * seasonFactor(time.month) * dailyFactor(time.hour)
        * (9500 + r) + 5000) \div 10000

\* the rows loadSpainData returns when the draws of Math.random are `draws`
CombinedRows(solarData, windData, draws) ==
    IF solarData = <<>> \/ windData = <<>> THEN <<>>
    ELSE [i \in DOMAIN solarData |->
            [hour |-> i - 1, time |-> solarData[i].time,
             demand |-> RandomDemand(solarData[i].time, draws[i]),
             solar |-> solarData[i].factor,
             wind |-> FactorAt(windData, i)]]

\* one call: the fetch fails and the catch block returns [], or the rows
\* are combined with one draw of Math.random per row
LoadSpainData ==
    /\ Len(loads) < MaxLoads
    /\ \/ loads' = Append(loads, [fetched |-> FALSE, data |-> <<>>])
       \/ \E draws \in [DOMAIN SolarCsv -> RandomDraws] :
             loads' = Append(loads, [fetched |-> TRUE,
                                     data |-> CombinedRows(SolarCsv, WindCsv, draws)])
    /\ UNCHANGED <<serverVars, clientVars, appVars, built, runs>>

LoaderSpec == Init /\ [][LoadSpainData]_vars

-----------------------------------------------------------------------------
(* Calls of buildLPModel on the weeks getWeekData cuts out of a dataset     *)
(* longer than a week, for the technologies of a request in every order.    *)

\* rows of the hourly files of the long dataset
YearLen == 170

\* hourly files of YearLen rows (the wind file one row shorter); the
\* offshore factors run over 0, 0.001 and 0.002
LongDataset ==
    LET HourOfYear(i) == [month |-> 3, hour |-> i % 24]
    IN
    [solar |-> [k \in 1..YearLen |->
                  [time |-> HourOfYear(k - 1), factor |-> ((k - 1) * 7) % 1001]],
     wind |-> [k \in 1..(YearLen - 1) |->
                  [time |-> HourOfYear(k - 1), factor |-> ((k - 1) * 13) % 1001]],
     offshore |-> [k \in 1..YearLen |->
                  [time |-> HourOfYear(k - 1), factor |-> (k - 1) % 3]],
     extreme |-> << [hour |-> 0, time |-> Night, solar |-> 0, wind |-> 1,
                     offshore |-> Some(2)],
                    [hour |-> 1, time |-> Day, solar |-> 300, wind |-> 0,
                     offshore |-> Undefined] >>]

\* week lists of representative_weeks.json: two whole weeks; a week cut
\* short by the end of the files before a whole week; an empty week, the
\* extreme week and a week of one record; the extreme week alone; no week
BuildWeeks ==
    { << WeekConf(0, Some(1), FALSE, TRUE), WeekConf(2, Some(2), FALSE, TRUE) >>,
      << WeekConf(YearLen - 2, Some(1), FALSE, TRUE),
         WeekConf(0, Some(1), FALSE, FALSE) >>,
      << WeekConf(YearLen, Some(1), FALSE, TRUE), WeekConf(-1, Some(1), TRUE, FALSE),
         WeekConf(YearLen - 1, Some(3), FALSE, TRUE) >>,
      << WeekConf(-1, Undefined, TRUE, TRUE) >>,
      <<>> }

\* the orders in which Object.values may list the technologies of a set
Orders(S) ==
    {l \in [1..Cardinality(S) -> S] : \A i, j \in DOMAIN l : l[i] = l[j] => i = j}

\* technologies a request may carry: the three renewable ids, a renewable
\* whose id has no availability profile, a baseload and a dispatchable
\* technology, and two technologies of type storage
BuildPool ==
    { Solar,
      Tech("WIND", "renewable", 3, 0, 0, 0, 1, 0, 0),
      Tech("WIND_OFFSHORE", "renewable", 4, 0, 0, 0, 1, 0, 0),
      Tech("DIESEL", "renewable", 1, 0, 2, 1, 1, 0, 3),
      Tech("NUCLEAR", "baseload", 6, 1, 1, 0, 2, 0, 0),
      GasCcgt,
      Battery,
      Tech("HYDROGEN", "storage", 4, 0, 0, 0, 1, 0, 0) }

\* up to three technologies, two when the weeks are whole
BuildTechLists(weeks) ==
    UNION {Orders(S) : S \in {T \in SUBSET BuildPool :
                /\ T # {}
                /\ Cardinality(T) <= (IF Len(weeks) = 2 THEN 2 ELSE 3)}}

\* lines 356-359: the weeks of the request, as buildLPModel receives them
WeekChunks(datasets, weeks, demandProfile, region) ==
    [k \in DOMAIN weeks |-> getWeekData(datasets, weeks[k], demandProfile, region)]

\* one call of buildLPModel
BuildModel ==
    /\ built = NoValue
    /\ \E weeks \in BuildWeeks, minRenewables \in {0, 50} :
         \E techs \in BuildTechLists(weeks) :
           LET dataChunks == WeekChunks([c \in {"es"} |-> LongDataset], weeks,
                                        "baseload", "es")
           IN built' = Some([techs |-> techs, dataChunks |-> dataChunks,
                             minRenewables |-> minRenewables,
                             model |-> buildLPModel(techs, dataChunks, minRenewables)])
    /\ UNCHANGED <<serverVars, clientVars, appVars, loads, runs>>

\* the model is dropped when optimizeWithHiGHS returns
DiscardModel ==
    /\ built # NoValue
    /\ built' = NoValue
    /\ UNCHANGED <<serverVars, clientVars, appVars, loads, runs>>

BuildSpec == Init /\ [][BuildModel \/ DiscardModel]_vars

-----------------------------------------------------------------------------
(* Two calls of optimizeWithHiGHS on the same weeks, the second with the    *)
(* capex or the fuel cost of one technology raised.                         *)

\* techs with the capex or the fuel cost of its k-th technology raised by d
Raised(techs, k, field, d) ==
    [techs EXCEPT ![k] = IF field = "capex" THEN [@ EXCEPT !.capex = @ + d]
                         ELSE [@ EXCEPT !.fuelCost = @ + d]]

\* the technologies of the first call, the region, and what is raised
CompareInputs ==
    { [techs |-> techs, region |-> region, field |-> field, by |-> d] :
        techs \in { <<GasCcgt>>, <<Solar>>, <<Solar, GasCcgt>> },
        region \in {"fr"},
        field \in {"capex", "fuelCost"},
        d \in {4, 1000} }

\* the two calls; HiGHS is deterministic, so the same LP has the same
\* outcome in both
CompareRuns ==
    /\ runs = NoValue
    /\ \E in \in CompareInputs :
         \E k \in DOMAIN in.techs :
           LET datasets == [c \in Codes |-> IF c = "es" THEN DiskES
                                            ELSE IF c = "gb" THEN DiskGB ELSE DiskFR]
               dataChunks == WeekChunks(datasets, WeeksFull[in.region], "spain",
                                        in.region)
               dearer == Raised(in.techs, k, in.field, in.by)
               model1 == buildLPModel(in.techs, dataChunks, 0)
               model2 == buildLPModel(dearer, dataChunks, 0)
           IN \E outcome1 \in SolveOutcomes(model1), outcome2 \in SolveOutcomes(model2) :
                /\ model1 = model2 => outcome1 = outcome2
                /\ runs' = Some([id |-> in.techs[k].id, field |-> in.field,
                                 first |-> AfterSolve(in.techs, model1, outcome1),
                                 second |-> AfterSolve(dearer, model2, outcome2)])
    /\ UNCHANGED <<serverVars, clientVars, appVars, loads, built>>

\* the two results are dropped
ForgetRuns ==
    /\ runs # NoValue
    /\ runs' = NoValue
    /\ UNCHANGED <<serverVars, clientVars, appVars, loads, built>>

CompareSpec == Init /\ [][CompareRuns \/ ForgetRuns]_vars

Next ==
    \/ LoadData
    \/ SolverInitFails
    \/ Listen
    \/ ConnectEarly
    \/ GiveUp
    \/ Receive
    \/ HandleOptimize
    \/ Finish

Spec == Init /\ [][Next]_vars

-----------------------------------------------------------------------------
(* The annual cost of one unit of capacity: the objective of buildLPModel   *)
(* and the total cost of the extractor for a technology alone, without any  *)
(* hour, and a solution that builds one unit of it.                         *)

\* economics of a technology: with and without capex, fixed O&M and
\* discounting, lifetimes of one to three years, and for storage with and
\* without a duration and a cost per kWh
PricedTechs ==
    { [Tech("GAS_CCGT", type, capex, opexFixed, 0, 0, lifetime, wacc, 0)
         EXCEPT !.duration = duration, !.capexPerKwh = capexPerKwh] :
        type \in {"dispatchable", "storage"}, capex \in {0, 3, 8},
        opexFixed \in {0, 4}, lifetime \in {1, 2, 3}, wacc \in {0, 10, 100},
        duration \in {Undefined, Some(2)}, capexPerKwh \in {Undefined, Some(6)} }

\* lines 183-219 and 453-488 for one technology
PriceTech ==
    /\ priced = NoValue
    /\ \E tech \in PricedTechs :
         LET v == IF tech.type = "storage" THEN VarE(tech.id) ELSE VarC(tech.id)
             model == buildLPModel(<<tech>>, <<>>, 0)
             result == ExtractResult(<<tech>>, (v :> Q(1, 0)), model.flatData)
         IN priced' = Some([tech |-> tech,
                            annual |-> getAnnualFixedCost(tech),
                            objective |-> model.objective,
                            totalCost |-> result.totalCost])
    /\ UNCHANGED <<serverVars, clientVars, callVars, uiVars>>

ForgetPrice ==
    /\ priced # NoValue
    /\ priced' = NoValue
    /\ UNCHANGED <<serverVars, clientVars, callVars, uiVars>>

PriceSpec == Init /\ [][PriceTech \/ ForgetPrice]_vars

-----------------------------------------------------------------------------
(* The App component: the optimisation effect (App.tsx, lines 25-43) and    *)
(* fetchOptimization.  The effect runs after the first render and after     *)
(* every render in which techs, demandProfile, region or minRenewables      *)
(* changed: it clears the timer of the previous run and starts one of 400   *)
(* ms, whose callback sends the inputs of its own render.  A request that   *)
(* was sent is not cancelled by a later change.                             *)

\* how many times the user changes the inputs
MaxChanges == 3

\* what fetchOptimization may throw: a response that is not ok, or the
\* rejection of fetch itself
FetchErrors == {<<"Optimization failed: ", "Internal Server Error">>,
                <<"Failed to fetch">>}

\* the user changes an input: the cleanup of the previous effect clears its
\* timer (lines 41-42), the effect starts a new one
ChangeInput ==
    /\ inputs < MaxChanges
    /\ inputs' = inputs + 1
    /\ timer' = Some(inputs + 1)
    /\ UNCHANGED <<inflight, simulationResult, isSimulating, error>>
    /\ UNCHANGED <<serverVars, clientVars, callVars, priced>>

\* the timer fires: lines 27-31 up to the await
TimerFires ==
    /\ timer # NoValue
    /\ isSimulating' = TRUE
    /\ error' = NoValue
    /\ inflight' = inflight \cup {timer[1]}
    /\ timer' = NoValue
    /\ UNCHANGED <<inputs, simulationResult>>
    /\ UNCHANGED <<serverVars, clientVars, callVars, priced>>

\* fetchOptimization resolves for one of the requests: lines 32, 36-38
ResponseArrives ==
    /\ \E v \in inflight :
          /\ inflight' = inflight \ {v}
          /\ simulationResult' = Some(v)
    /\ isSimulating' = FALSE
    /\ UNCHANGED <<inputs, timer, error>>
    /\ UNCHANGED <<serverVars, clientVars, callVars, priced>>

\* fetchOptimization throws for one of the requests: lines 33-38
RequestFails ==
    /\ \E v \in inflight : inflight' = inflight \ {v}
    /\ \E message \in FetchErrors : error' = Some(message)
    /\ isSimulating' = FALSE
    /\ UNCHANGED <<inputs, timer, simulationResult>>
    /\ UNCHANGED <<serverVars, clientVars, callVars, priced>>

AppSpec == Init /\ [][ChangeInput \/ TimerFires \/ ResponseArrives \/ RequestFails]_vars

-----------------------------------------------------------------------------
(* Properties *)

Responded == pc = "responded"

\* the handler answered 200 with a SimulationResult
Answered == Responded /\ response[1].status = 200

Result == response[1].body

ReqTechs == request[1].techs[1]

ReqEnabled == EnabledTechs(ReqTechs)

ReqGens == SelectSeq(ReqEnabled, LAMBDA t : t.type # "storage")

\* the solver reported an optimum
SolvedOptimal ==
    /\ solverResult # NoValue
    /\ solverResult[1].kind = "returned"
    /\ solverResult[1].Status = "Optimal"

\* the rows of the model whose name starts with `head`
RowsNamed(model, head) ==
    {k \in DOMAIN model.constraints : model.constraints[k].name[1] = head}

\* the terms the balance row of hour i must have
BalanceTerms(i) ==
    {Term(1, VarG(ReqGens[k].id, i)) : k \in DOMAIN ReqGens}
    \cup (IF FindStorage(ReqEnabled) = Undefined THEN {}
          ELSE {Term(1, VarDis(i)), Term(-1, VarCh(i))})
    \cup {Term(1, VarU(i))}

\* generation + discharge - charge + unserved of an hourly record of the
\* result
SupplyOf(h) ==
    QAdd(QSum([k \in DOMAIN ReqGens |-> h.gen[ReqGens[k].id]]),
         QAdd(IF h.battery = Undefined THEN QZero
              ELSE QSub(h.battery[1].batteryDischarge, h.battery[1].batteryCharge),
              h.shortfall))

\* C1: the model has exactly one balance row per hour of the concatenated
\* timeline, stating sum of generation + discharge - charge + unserved =
\* demand, with the storage terms exactly when a storage technology is
\* enabled; and every reported hour satisfies the balance (up to the solver
\* tolerance)
C1_BalanceEveryHour ==
    (Responded /\ lp # NoValue) =>
        LET model == lp[1]
            flat == model.flatData
        IN /\ Cardinality(RowsNamed(model, "bal")) = Len(flat)
           /\ \A i \in 0..(Len(flat) - 1) :
                 \E k \in RowsNamed(model, "bal") :
                    LET r == model.constraints[k]
                    IN /\ r.name = <<"bal", ToString(i)>>
                       /\ r.op = "="
                       /\ r.den = 1
                       /\ r.rhs = flat[i + 1].demand
                       /\ Range(r.terms) = BalanceTerms(i)
                       /\ Len(r.terms) = Cardinality(BalanceTerms(i))
           /\ (response[1].status = 200 =>
                 /\ Len(Result.hourly) = Len(flat)
                 /\ \A k \in DOMAIN Result.hourly :
                       LET supply == SupplyOf(Result.hourly[k])
                       IN /\ supply.s = flat[k].demand
                          /\ Abs(supply.e) <= MaxTolUnits)

\* a result over two hours with storage and generation in the balance
C1_Witness ==
    /\ Answered
    /\ FindStorage(ReqEnabled) # Undefined
    /\ Len(Result.hourly) = 2
    /\ \E k \in DOMAIN ReqGens : Result.hourly[1].gen[ReqGens[k].id].s > 0
    /\ Result.hourly[2].battery[1].batteryDischarge.s > 0

\* the solver did not deliver an optimum: it threw, or reported another status
ServerSolveFailed ==
    /\ Responded
    /\ solverResult # NoValue
    /\ IF solverResult[1].kind = "threw" THEN TRUE
       ELSE solverResult[1].Status # "Optimal"

ClientSolveFailed ==
    /\ cpc = "returned"
    /\ csolution # NoValue
    /\ csolution[1].kind = "threw"

\* C2: whenever the solver ends without an optimum, the caller gets an
\* explicit error naming the status, never a SimulationResult -- in the
\* server and in the client implementation
C2_FailureSurfaced ==
    /\ ServerSolveFailed =>
          /\ response[1].status = 500
          /\ response[1].body.error =
                (IF solverResult[1].kind = "threw" THEN solverResult[1].message
                 ELSE SolverFailed(solverResult[1].Status))
    /\ ClientSolveFailed => cresult[1].kind = "threw"

\* C3: a request that resolves to no hourly data is answered with an
\* all-zero SimulationResult and not with an error, whatever technologies
\* are enabled or fixed
NoHourlyData ==
    LET req == request[1]
        weeks == Lookup(WEEK_CONFIGS, req.region, "es")
    IN \/ weeks = Undefined
       \/ Flat([k \in DOMAIN weeks[1] |->
                  getWeekData(DATASETS, weeks[1][k], req.demandProfile, req.region)])
            = <<>>

IsZero(n) == n # NaN /\ n[1].s = 0

AllZero(result) ==
    /\ result.hourly = <<>>
    /\ result.totalCost # NaN
    /\ result.totalCost[1].hi = 0
    /\ result.totalCost[1].lo = 0
    /\ result.lcoe # NaN
    /\ result.lcoe[1].num.hi = 0
    /\ result.lcoe[1].num.lo = 0
    /\ IsZero(result.totalCo2)
    /\ IsZero(result.unservedEnergy)
    /\ \A id \in DOMAIN result.capacities : result.capacities[id].s = 0
    /\ \A id \in DOMAIN result.mix : IsZero(result.mix[id])

C3_EmptyDataZeroResult ==
    (/\ Responded
     /\ request[1].techs # Undefined
     /\ NoHourlyData
     /\ (solverResult = NoValue \/ SolvedOptimal))
        => (response[1].status = 200 /\ AllZero(Result))

\* the rows that pin variable v: equalities over v alone
PinRows(model, v) ==
    {k \in DOMAIN model.constraints :
        /\ model.constraints[k].op = "="
        /\ {model.constraints[k].terms[j].var :
                j \in DOMAIN model.constraints[k].terms} = {v}}

\* C4: every enabled technology flagged isFixed has exactly one equality
\* row pinning its capacity variable to fixedCapacity GW x 1000, and the
\* capacity reported for it is that value (up to the solver tolerance)
C4_FixedCapacityPinned ==
    (Responded /\ lp # NoValue) =>
        \A k \in DOMAIN ReqEnabled :
            LET t == ReqEnabled[k]
                v == IF t.type = "storage" THEN VarE(t.id) ELSE VarC(t.id)
                pins == PinRows(lp[1], v)
            IN t.isFixed =>
                /\ Cardinality(pins) = 1
                /\ \A j \in pins :
                      LET r == lp[1].constraints[j]
                      IN /\ r.terms = <<Term(1, v)>>
                         /\ r.rhs * FixedCapScale = OrZero(t.fixedCapacity) * GW_TO_MW
                /\ (response[1].status = 200 =>
                      /\ Result.capacities[t.id].s * FixedCapScale
                            = OrZero(t.fixedCapacity) * GW_TO_MW
                      /\ Abs(Result.capacities[t.id].e) <= MaxTolUnits)

\* a result with a pinned generator and a pinned storage
C4_Witness ==
    /\ Answered
    /\ \E k \in DOMAIN ReqEnabled :
          /\ ReqEnabled[k].isFixed
          /\ ReqEnabled[k].type = "storage"
          /\ Result.capacities[ReqEnabled[k].id].s > 0
    /\ \E k \in DOMAIN ReqEnabled :
          /\ ReqEnabled[k].isFixed
          /\ ReqEnabled[k].type # "storage"
          /\ Result.capacities[ReqEnabled[k].id].s > 0

\* the enabled technologies that are neither renewable nor storage
ReqNonRenewable ==
    SelectSeq(ReqEnabled, LAMBDA t : t.type # "renewable" /\ t.type # "storage")

\* the positions of the hours flagged includeInStats
StatHours(flat) == {k \in DOMAIN flat : flat[k].includeInStats}

\* sum of f[x] over the finite set S
RECURSIVE SumOver(_, _)
SumOver(S, f) ==
    IF S = {} THEN 0
    ELSE LET x == CHOOSE y \in S : TRUE IN f[x] + SumOver(S \ {x}, f)

\* demand of the includeInStats hours, scaled by the week weights
WeightedDemand(flat) ==
    SumOver(StatHours(flat),
            [k \in StatHours(flat) |-> flat[k].demand * OrZero(flat[k].weight)])

\* the terms of the minimum-renewable-share row
MinResTerms(flat) ==
    {Term(OrZero(flat[h].weight) * Percent, VarG(ReqNonRenewable[j].id, h - 1)) :
        j \in DOMAIN ReqNonRenewable, h \in StatHours(flat)}

\* C5: with a minimum-renewable share X in (0,100], the model has a single
\* aggregate row over exactly the generation of the non-renewable,
\* non-storage technologies in the includeInStats hours, and in every result
\* that generation, weight-scaled, is at most (1 - X/100) times the
\* weight-scaled demand of those hours
C5_MinRenewables ==
    (Responded /\ lp # NoValue /\ request[1].minRenewables > 0) =>
        LET model == lp[1]
            flat == model.flatData
            X == request[1].minRenewables
            rows == RowsNamed(model, "min")
        IN /\ Cardinality(rows) = (IF MinResTerms(flat) = {} THEN 0 ELSE 1)
           /\ \A k \in rows :
                 LET r == model.constraints[k]
                 IN /\ r.op = "<="
                    /\ Range(r.terms) = MinResTerms(flat)
                    /\ Len(r.terms) = Cardinality(MinResTerms(flat))
                    /\ r.den = Percent
                    /\ r.rhs = WeightedDemand(flat) * (Percent - X)
           /\ (response[1].status = 200 =>
                 Percent
                   * SumOver(StatHours(flat),
                        [h \in StatHours(flat) |->
                            OrZero(flat[h].weight)
                              * SeqSum([j \in DOMAIN ReqNonRenewable |->
                                   Result.hourly[h].gen[ReqNonRenewable[j].id].s])])
                   <= (Percent - X) * WeightedDemand(flat))

\* a result where the share binds: the non-renewable generation is exactly
\* the allowed half of the demand
C5_Witness ==
    /\ Answered
    /\ request[1].minRenewables = 50
    /\ \E h \in StatHours(lp[1].flatData) :
          /\ ReqNonRenewable # <<>>
          /\ 2 * Result.hourly[h].gen[ReqNonRenewable[1].id].s
                = lp[1].flatData[h].demand

\* C6: with no technology enabled every hour's unserved energy is its
\* demand, the reported served energy is 0 and the LCOE is a defined value
C6_NoTechnology ==
    (Answered /\ ReqEnabled = <<>>) =>
        /\ \A k \in DOMAIN Result.hourly :
              Result.hourly[k].shortfall.s = Result.hourly[k].data.demand
        /\ IsZero(Result.annualServed)
        /\ Result.lcoe # NaN
        /\ QLess(QZero, Result.lcoe[1].den)

\* weighted demand minus weighted unserved energy of the includeInStats
\* hours of a result, NaN when a weight is missing
ServedEnergy(result) ==
    LET stat == SelectSeq([k \in DOMAIN result.hourly |-> k],
                          LAMBDA k : result.hourly[k].data.includeInStats)
    IN NSub(NSum([m \in DOMAIN stat |->
                    QTimesWeight(Q(result.hourly[stat[m]].data.demand, 0),
                                 result.hourly[stat[m]].data.weight)]),
            NSum([m \in DOMAIN stat |->
                    QTimesWeight(result.hourly[stat[m]].shortfall,
                                 result.hourly[stat[m]].data.weight)]))

\* C7: the LCOE is the recomputed total cost divided by max(epsilon, served
\* energy), served energy being weighted demand minus weighted unserved
\* energy over the includeInStats hours, and the divisor is positive
C7_LcoeDivisor ==
    Answered =>
        LET served == ServedEnergy(Result)
        IN IF served = NaN \/ Result.totalCost = NaN THEN Result.lcoe = NaN
           ELSE /\ Result.lcoe # NaN
                /\ Result.lcoe[1].num = Result.totalCost[1]
                /\ Result.lcoe[1].den
                     = QMax(Q(SERVED_FLOOR, 0), QScale(served[1], ServedScale))
                /\ QLess(QZero, Result.lcoe[1].den)

\* a result with nothing served and a positive cost: the floor is the divisor
C7_Witness ==
    /\ Answered
    /\ ServedEnergy(Result) = Num(QZero)
    /\ Result.lcoe[1].den = Q(SERVED_FLOOR, 0)
    /\ Result.totalCost[1].hi > 0

\* C8: unserved energy, hourly and in total, and curtailment are never
\* negative in a result, whatever primal values the solver returned
C8_NonNegativeOutputs ==
    Answered =>
        /\ \A k \in DOMAIN Result.hourly :
              /\ ~QNegative(Result.hourly[k].shortfall)
              /\ ~QNegative(Result.hourly[k].curtailment)
        /\ (Result.unservedEnergy # NaN => ~QNegative(Result.unservedEnergy[1]))

ReqRenewable == SelectSeq(ReqEnabled, LAMBDA t : t.type = "renewable")

\* capacity x availability - generation of a renewable in an hourly record,
\* in thousandths of a MW
Surplus(t, h) ==
    QSub(QScale(Result.capacities[t.id], ProfileOf(t.id, h.data)),
         QScale(h.gen[t.id], ProfileScale))

\* the names of the LP variables start with c, e, g, b or u
NoCurtailmentVariable ==
    lp # NoValue =>
        \A k \in DOMAIN lp[1].vars : lp[1].vars[k][1] \in {"c", "e", "g", "b", "u"}

\* C9 as stated: the curtailment of every hour is the sum over the enabled
\* renewables of max(0, capacity x availability - generation); it is no
\* variable of the LP
C9_CurtailmentExact ==
    Answered =>
        /\ NoCurtailmentVariable
        /\ \A k \in DOMAIN Result.hourly :
              Result.hourly[k].curtailment.s
                = QSum([j \in DOMAIN ReqRenewable |->
                          QMax(QZero, Surplus(ReqRenewable[j], Result.hourly[k]))]).s

\* C9, amended: the curtailment of every hour is the sum, over the enabled
\* renewables, of the surpluses capacity x availability - generation that
\* exceed 0.001; smaller surpluses are dropped, non-renewables add nothing,
\* and curtailment is no variable of the LP
C9_CurtailmentDeadBand ==
    Answered =>
        /\ NoCurtailmentVariable
        /\ \A k \in DOMAIN Result.hourly :
              LET h == Result.hourly[k]
                  kept(t) == IF QLess(Q(CURTAILMENT_EPS, 0), Surplus(t, h))
                             THEN Surplus(t, h) ELSE QZero
                  exact == QSum([j \in DOMAIN ReqRenewable |->
                                   QMax(QZero, Surplus(ReqRenewable[j], h))])
              IN /\ h.curtailment = QSum([j \in DOMAIN ReqRenewable |->
                                            kept(ReqRenewable[j])])
                 /\ h.curtailment.s <= exact.s
                 /\ exact.s - h.curtailment.s <= CURTAILMENT_EPS * Len(ReqRenewable)

\* an hour with curtailed solar while a dispatchable technology stands idle
C9_Witness ==
    /\ Answered
    /\ \E k \in DOMAIN Result.hourly :
          /\ Result.hourly[k].curtailment.s > 0
          /\ \E j \in DOMAIN ReqNonRenewable :
                Result.hourly[k].gen[ReqNonRenewable[j].id].s
                  < Result.capacities[ReqNonRenewable[j].id].s

\* every includeInStats hour of the result carries a weight
StatsWeighted ==
    \A k \in DOMAIN Result.hourly :
        Result.hourly[k].data.includeInStats => Result.hourly[k].data.weight # Undefined

\* the cost of a result by the unit costs of the objective of buildLPModel
CostByObjective(result) ==
    LET batt == FindStorage(ReqEnabled)
        stat == SelectSeq([k \in DOMAIN result.hourly |-> k],
                          LAMBDA k : result.hourly[k].data.includeInStats)
    IN MAdd(MSum([k \in DOMAIN ReqEnabled |->
                    MTimesQ(CapacityCost(ReqEnabled[k]),
                            result.capacities[ReqEnabled[k].id])]),
            MSum(Flat([m \in DOMAIN stat |->
               LET h == result.hourly[stat[m]]
                   w == OrZero(h.data.weight)
               IN [j \in DOMAIN ReqGens |->
                      MTimesQ(MCoef(getMarginalCost(ReqGens[j]) * w * MoneyScale),
                              h.gen[ReqGens[j].id])]
                  \o (IF batt = Undefined THEN <<>>
                      ELSE <<MTimesQ(MCoef(CYCLE_COST * w), h.battery[1].batteryCharge)>>)
                  \o <<MTimesQ(MCoef(VOLL * MoneyScale * w), h.shortfall)>>])))

\* the value of the objective of the model at the solution returned
ObjectiveValue ==
    MSum([k \in DOMAIN lp[1].objective |->
            MTimesQ(lp[1].objective[k].coef,
                    Primal(solverResult[1].Columns, lp[1].objective[k].var))])

\* C10: the total cost is recomputed from the solution: fixed unit cost x
\* capacity over the enabled technologies plus, over the includeInStats
\* hours, weighted marginal cost x generation, cycling cost x charge and
\* VOLL x unserved, with the unit costs and constants of the objective
C10_TotalCostRecomputed ==
    (Answered /\ StatsWeighted) =>
        /\ Result.totalCost # NaN
        /\ Result.totalCost[1] = CostByObjective(Result)

\* a result with capacity, generation and unserved energy to pay for, whose
\* cost is not the value of the objective (an hour outside the statistics
\* has a cost too)
C10_Witness ==
    /\ Answered
    /\ StatsWeighted
    /\ Result.totalCost[1] # ObjectiveValue
    /\ \E k \in DOMAIN Result.hourly :
          /\ Result.hourly[k].data.includeInStats
          /\ Result.hourly[k].shortfall.s > 0
          /\ \E j \in DOMAIN ReqGens :
                /\ getMarginalCost(ReqGens[j]) > 0
                /\ Result.hourly[k].gen[ReqGens[j].id].s > 0

\* the request failed with an exception: in the construction of the week
\* data (no week list), or in the solve
RequestThrew ==
    /\ Responded
    /\ request[1].techs # Undefined
    /\ \/ Lookup(WEEK_CONFIGS, request[1].region, "es") = Undefined
       \/ ServerSolveFailed

\* the message of the exception of a failed request
ThrownMessage ==
    IF solverResult = NoValue THEN <<MapOfUndefined>>
    ELSE IF solverResult[1].kind = "threw" THEN solverResult[1].message
    ELSE SolverFailed(solverResult[1].Status)

\* after a response the server listens again, holds nothing of the request,
\* and its data and solver are what they were
BackToListening ==
    /\ pc' = "listening"
    /\ request' = NoValue
    /\ lp' = NoValue
    /\ solverResult' = NoValue
    /\ response' = NoValue
    /\ UNCHANGED <<DATASETS, WEEK_CONFIGS, highsSolver>>

\* C11: an exception raised while the handler builds, solves or extracts
\* is answered with one structured error response {error: message} of
\* status 500, and the server then listens again in the state it was in
\* before the request, so the next request is handled as if the failed one
\* had never been made
C11_ExceptionCaught ==
    /\ [](RequestThrew => response[1] = Json(500, ErrorBody(ThrownMessage)))
    /\ [][RequestThrew => BackToListening]_vars
    /\ [](pc = "listening" =>
            /\ request = NoValue /\ lp = NoValue
            /\ solverResult = NoValue /\ response = NoValue
            /\ highsSolver)

\* a request whose solve threw has been answered
C11_Witness ==
    /\ RequestThrew
    /\ solverResult # NoValue
    /\ solverResult[1].kind = "threw"
    /\ response[1].status = 500

\* a request carrying technologies has been sent while the solver was not
\* initialised, and its caller has the outcome
SentBeforeSolverReady ==
    /\ request # NoValue
    /\ request[1].techs # Undefined
    /\ response # NoValue
    /\ ~highsSolver

ResponseFor(req, datasets, weekConfigs, outcome) ==
    LET weeks == Lookup(weekConfigs, req.region, "es")
        dataChunks == [k \in DOMAIN weeks[1] |->
                          getWeekData(datasets, weeks[1][k], req.demandProfile,
                                      req.region)]
        model == buildLPModel(req.techs[1], dataChunks, req.minRenewables)
    IN IF req.techs = Undefined THEN Json(400, ErrorBody(<<"Missing techs">>))
       ELSE IF weeks = Undefined THEN Json(500, ErrorBody(<<MapOfUndefined>>))
       ELSE Respond(AfterSolve(req.techs[1], model, outcome[1]))

\* a step that leaves the process-wide state as it is
ProcessStateUntouched ==
    /\ DATASETS' = DATASETS
    /\ WEEK_CONFIGS' = WEEK_CONFIGS
    /\ highsSolver' = highsSolver

\* C13: handling a request changes neither DATASETS, WEEK_CONFIGS, the
\* solver reference nor the caller's body; nothing of a request is kept once
\* it is answered; and the response is determined by the body, the loaded
\* data and the solver's answer alone
C13_RequestsAreStateless ==
    /\ [][(pc = "received" \/ pc = "responded") => ProcessStateUntouched]_vars
    /\ [][(pc = "received") => (request' = request)]_vars
    /\ [](pc = "listening" =>
            request = NoValue /\ lp = NoValue /\ solverResult = NoValue
            /\ response = NoValue)
    /\ [](Responded =>
            response[1] = ResponseFor(request[1], DATASETS, WEEK_CONFIGS, solverResult))

\* a request over both weeks has been answered with a result
C13_Witness ==
    /\ Answered
    /\ Len(Result.hourly) = 2
    /\ Result.capacities # <<>>
    /\ response[1] = ResponseFor(request[1], DATASETS, WEEK_CONFIGS, solverResult)

\* C14: identical inputs give identical hourly series, identical LPs and
\* identical results: the model the server solved is the one built from the
\* request and the loaded data, and two loads of the same files by the
\* client's loader return the same rows
C14_Deterministic ==
    /\ (Responded /\ lp # NoValue) =>
          LET req == request[1]
              weeks == Lookup(WEEK_CONFIGS, req.region, "es")[1]
          IN lp[1] = buildLPModel(req.techs[1],
                        [k \in DOMAIN weeks |->
                            getWeekData(DATASETS, weeks[k], req.demandProfile,
                                        req.region)],
                        req.minRenewables)
    /\ \A i \in DOMAIN loads : \A j \in DOMAIN loads :
          loads[i].fetched = loads[j].fetched => loads[i].data = loads[j].data

-----------------------------------------------------------------------------
(* C15 *)

\* a row without the order of its terms
RowAsSet(r) ==
    [name |-> r.name, terms |-> Range(r.terms), op |-> r.op, rhs |-> r.rhs,
     den |-> r.den]

\* a linear program as a set of variables, objective terms and rows
LPAsSet(model) ==
    [vars |-> Range(model.vars) \cup Range(model.bounds),
     objective |-> Range(model.objective),
     constraints |-> {RowAsSet(model.constraints[k]) : k \in DOMAIN model.constraints}]

\* the technologies of techs in another order
Reorderings(techs) == Orders(Range(techs))

\* C15: the linear program built for the technologies of a request, taken
\* as a set of variables, objective coefficients and rows, is the same for
\* every order in which the technologies are listed, also when more than
\* one enabled technology has type storage.
C15_OrderIndependent ==
    built # NoValue =>
        \A other \in Reorderings(built[1].techs) :
            LPAsSet(buildLPModel(other, built[1].dataChunks, built[1].minRenewables))
                = LPAsSet(built[1].model)

-----------------------------------------------------------------------------
(* C18, C19 *)

\* a model was built with a storage technology enabled
StorageBuilt ==
    built # NoValue /\ FindStorage(EnabledTechs(built[1].techs)) # Undefined

\* the positions in the flattened timeline, from 0, of the first record of
\* every week that has a record
WeekFirsts(dataChunks) ==
    { SeqSum([j \in 1..(k - 1) |-> Len(dataChunks[j])]) :
        k \in {w \in DOMAIN dataChunks : dataChunks[w] # <<>>} }

\* what the rows of a model state, without their names
RowsStated(model) ==
    { [terms |-> Range(r.terms), op |-> r.op, rhs |-> r.rhs, den |-> r.den] :
        r \in Range(model.constraints) }

\* soc_h - soc_{h-1} - efficiency x charge_h + discharge_h = 0
Recurrence(h) ==
    [terms |-> {Term(EffScale, VarSoc(h)), Term(-EffScale, VarSoc(h - 1)),
                Term(-BATTERY_EFF, VarCh(h)), Term(EffScale, VarDis(h))},
     op |-> "=", rhs |-> 0, den |-> EffScale]

\* soc_h - efficiency x charge_h + discharge_h = 0
Reset(h) ==
    [terms |-> {Term(EffScale, VarSoc(h)), Term(-BATTERY_EFF, VarCh(h)),
                Term(EffScale, VarDis(h))},
     op |-> "=", rhs |-> 0, den |-> EffScale]

\* C18: with a storage technology enabled, every hour that is not the
\* first of a week carries the recurrence of the state of charge, and the
\* first hour of every week, the first week of the timeline included,
\* carries the reset row.
C18_ResetEveryWeek ==
    StorageBuilt =>
        LET rows == RowsStated(built[1].model)
            firsts == WeekFirsts(built[1].dataChunks)
        IN \A h \in 0..(Len(built[1].model.flatData) - 1) :
              IF h \in firsts THEN Reset(h) \in rows ELSE Recurrence(h) \in rows

\* a row of the model ties the state of charge of hour h to that of hour h - 1
LinkedToPrevious(model, h) ==
    \E r \in Range(model.constraints) :
        {VarSoc(h), VarSoc(h - 1)} \subseteq {r.terms[k].var : k \in DOMAIN r.terms}

\* C19: no row links the state of charge across two weeks: the recurrence
\* is broken exactly at the first record of each week getWeekData returned,
\* whole, cut short or empty.
C19_BrokenAtWeekStart ==
    StorageBuilt =>
        \A h \in 0..(Len(built[1].model.flatData) - 1) :
            (h \in WeekFirsts(built[1].dataChunks))
                <=> ~LinkedToPrevious(built[1].model, h)

-----------------------------------------------------------------------------
(* C20 *)

\* the coefficient of variable v in row r
CoefOf(r, v) ==
    SeqSum([k \in DOMAIN r.terms |-> IF r.terms[k].var = v THEN r.terms[k].coef ELSE 0])

\* rows r and e state the same inequality (up to a positive factor)
SameMeaning(r, e) ==
    /\ r.op = e.op
    /\ r.rhs * e.den = e.rhs * r.den
    /\ \A v \in {r.terms[k].var : k \in DOMAIN r.terms}
               \cup {e.terms[k].var : k \in DOMAIN e.terms} :
          CoefOf(r, v) * e.den = CoefOf(e, v) * r.den

\* the hour's solar, wind or offshore factor according to the id, in
\* thousandths; no factor for another id
Availability(id, hourData) ==
    IF id = "SOLAR" THEN Some(hourData.solar)
    ELSE IF id = "WIND" THEN Some(hourData.wind)
    ELSE IF id = "WIND_OFFSHORE" /\ "offshore" \in DOMAIN hourData
    THEN Some(hourData.offshore)
    ELSE Undefined

\* the capacity-link row the specification asks for
CapacityLink(tech, i, hourData) ==
    LET g == VarG(tech.id, i)
        c == VarC(tech.id)
        avail == Availability(tech.id, hourData)
    IN IF tech.type = "renewable"
       THEN IF avail = Undefined \/ avail[1] <= 1
            THEN Row(<<>>, <<Term(1, g)>>, "<=", 0, 1)
            ELSE Row(<<>>, <<Term(ProfileScale, g), Term(-avail[1], c)>>, "<=", 0,
                     ProfileScale)
       ELSE Row(<<>>, <<Term(1, g), Term(-1, c)>>, "<=", 0, 1)

\* every hour and enabled non-storage technology of a model has exactly one
\* row named cap_<id>_<hour>, and it is the capacity link
CapacityLinked(techs, model) ==
    \A t \in {x \in Range(EnabledTechs(techs)) : x.type # "storage"} :
        \A k \in DOMAIN model.flatData :
            LET name == <<"cap">> \o IdTokens(t.id) \o <<ToString(k - 1)>>
                named == SelectSeq(model.constraints, LAMBDA r : r.name = name)
            IN /\ Len(named) = 1
               /\ SameMeaning(named[1], CapacityLink(t, k - 1, model.flatData[k]))

\* C20: for every hour and every enabled non-storage technology the LP has
\* exactly one capacity-link row: generation - availability x capacity <= 0
\* for a renewable, with the hour's solar, wind or offshore factor by id,
\* replaced by generation <= 0 when the factor is at most 0.001 or the id is
\* none of the three; generation - capacity <= 0 for a dispatchable or
\* baseload technology.  Stated of the model of the server and of the model
\* of optimizeCapacityExpansion.
C20_CapacityLink ==
    /\ built # NoValue => CapacityLinked(built[1].techs, built[1].model)
    /\ lp # NoValue => CapacityLinked(request[1].techs[1], lp[1])
    /\ cmodel # NoValue => CapacityLinked(cargs[1].techs, cmodel[1])

-----------------------------------------------------------------------------
(* C16 *)

\* a result for flat demand over weeks of positive weight counted in the
\* statistics, with one technology enabled, dispatchable and without capex
FlatScenario ==
    /\ Answered
    /\ request[1].demandProfile = "baseload"
    /\ Len(ReqEnabled) = 1
    /\ ReqEnabled[1].type = "dispatchable"
    /\ ReqEnabled[1].capex = 0
    /\ Result.hourly # <<>>
    /\ \A k \in DOMAIN Result.hourly :
          /\ Result.hourly[k].data.demand = baseDemand
          /\ OrZero(Result.hourly[k].data.weight) > 0
          /\ Result.hourly[k].data.includeInStats

\* capacity at the peak demand, nothing unserved in any hour, and an LCOE
\* of variable opex + fuel cost (the values the solver returned taken
\* without their deviation within the tolerance)
FlatOutcome ==
    LET t == ReqEnabled[1]
    IN /\ Result.capacities[t.id].s = baseDemand
       /\ \A k \in DOMAIN Result.hourly : Result.hourly[k].shortfall.s = 0
       /\ Result.lcoe # NaN
       /\ MTimesInt([Result.lcoe[1].num EXCEPT !.ehi = 0, !.elo = 0], ServedScale)
            = MCoef((t.opexVar + t.fuelCost) * MoneyScale * Result.lcoe[1].den.s)

\* the technology costs nothing but its marginal cost, below the value of
\* lost load, and neither the user nor a minimum renewable share limits it
OnlyMarginalCost ==
    /\ ReqEnabled[1].opexFixed = 0
    /\ ~ReqEnabled[1].isFixed
    /\ request[1].minRenewables = 0
    /\ ReqEnabled[1].opexVar + ReqEnabled[1].fuelCost < VOLL

\* C16 as stated: with flat demand of 30,000 and exactly one enabled
\* technology, dispatchable with zero capex, every result has capacity
\* 30,000, no unserved energy in any hour and an LCOE equal to the marginal
\* cost of the technology.
C16_FlatDemand == FlatScenario => FlatOutcome

\* C16 amended: the same, when in addition the technology has no fixed
\* O&M cost, is not pinned by the user, no minimum renewable share is asked
\* for and its marginal cost is below the value of lost load.
C16_FlatDemandMarginalOnly == (FlatScenario /\ OnlyMarginalCost) => FlatOutcome

\* two hours of flat demand met by the zero-cost capacity of 30,000
C16_Witness ==
    /\ FlatScenario
    /\ OnlyMarginalCost
    /\ Len(Result.hourly) = 2
    /\ Result.capacities[ReqEnabled[1].id].s = baseDemand
    /\ Result.lcoe[1].num.lo > 0

-----------------------------------------------------------------------------
(* C17 *)

\* both calls returned a result
BothReturned ==
    /\ runs # NoValue
    /\ runs[1].first.kind = "returned"
    /\ runs[1].second.kind = "returned"

\* the optimized capacity, in a result, of the technology whose cost was raised
CapacityIn(run) == run.value.capacities[runs[1].id]

\* its generation over the hours, each counted with the weight of its week
\* (the values the solver returned taken without their deviation)
WeightedGeneration(run) ==
    SeqSum([k \in DOMAIN run.value.hourly |->
              OrZero(run.value.hourly[k].data.weight)
                * run.value.hourly[k].gen[runs[1].id].s])

C17_FuelWitness ==
    /\ BothReturned
    /\ runs[1].field = "fuelCost"
    /\ WeightedGeneration(runs[1].second) < WeightedGeneration(runs[1].first)

-----------------------------------------------------------------------------
(* C21 *)

\* x - y <= 0
AtMost(x, y) ==
    [terms |-> {Term(1, x), Term(-1, y)}, op |-> "<=", rhs |-> 0, den |-> 1]

\* with a storage technology enabled, one capacity variable of that
\* technology bounds the charge, the discharge and the state of charge of
\* every hour of the model
StorageLimited(techs, model) ==
    LET batt == FindStorage(EnabledTechs(techs))
        rows == RowsStated(model)
    IN batt # Undefined =>
         \E cap \in {VarE(batt[1].id), VarC(batt[1].id)} :
            \A h \in 0..(Len(model.flatData) - 1) :
               /\ AtMost(VarCh(h), cap) \in rows
               /\ AtMost(VarDis(h), cap) \in rows
               /\ AtMost(VarSoc(h), cap) \in rows

\* C21: with a storage technology enabled, every hour of the LP carries
\* charge <= C x energy capacity and discharge <= C x energy capacity with
\* C = 1, and state of charge <= energy capacity, all three on the one
\* energy-capacity variable of the storage technology.  Stated of the model
\* of the server and of the model of optimizeCapacityExpansion.
C21_StorageLimits ==
    /\ built # NoValue => StorageLimited(built[1].techs, built[1].model)
    /\ lp # NoValue => StorageLimited(request[1].techs[1], lp[1])
    /\ cmodel # NoValue => StorageLimited(cargs[1].techs, cmodel[1])

-----------------------------------------------------------------------------
(* C22 *)

\* the variables met in the objective and in the rows of a model
UsedVars(model) ==
    {model.objective[k].var : k \in DOMAIN model.objective}
    \cup UNION { {r.terms[j].var : j \in DOMAIN r.terms} : r \in Range(model.constraints) }

\* the (family, technology, hour) combinations a model is about: a capacity
\* per technology, a generation per non-storage technology and hour, and
\* charge, discharge, state of charge (of the storage modelled) and
\* unserved energy per hour
Combinations(techs, model) ==
    LET enabled == Range(EnabledTechs(techs))
        hours == 0..(Len(model.flatData) - 1)
        batt == FindStorage(EnabledTechs(techs))
    IN { [family |-> IF t.type = "storage" THEN "e" ELSE "c", id |-> t.id, hour |-> -1] :
            t \in enabled }
       \cup { [family |-> "g", id |-> t.id, hour |-> h] :
                t \in {x \in enabled : x.type # "storage"}, h \in hours }
       \cup (IF batt = Undefined THEN {}
             ELSE { [family |-> f, id |-> batt[1].id, hour |-> h] :
                      f \in {"ch", "dis", "soc"}, h \in hours })
       \cup { [family |-> "u", id |-> "", hour |-> h] : h \in hours }

\* the name of a combination in the LP text
NameOf(c) ==
    CASE c.family = "c" -> VarC(c.id)
      [] c.family = "e" -> VarE(c.id)
      [] c.family = "g" -> VarG(c.id, c.hour)
      [] c.family = "ch" -> VarCh(c.hour)
      [] c.family = "dis" -> VarDis(c.hour)
      [] c.family = "soc" -> VarSoc(c.hour)
      [] OTHER -> VarU(c.hour)

\* every variable used is declared and bounded, the declared names are
\* the names of the combinations, one name each, declared once
WellDeclared(techs, model) ==
    LET combos == Combinations(techs, model)
    IN /\ UsedVars(model) \subseteq Range(model.vars)
       /\ Range(model.bounds) = Range(model.vars)
       /\ Range(model.vars) = {NameOf(c) : c \in combos}
       /\ Cardinality({NameOf(c) : c \in combos}) = Cardinality(combos)
       /\ Cardinality(Range(model.vars)) = Len(model.vars)

\* C22: every variable of the objective or of a row of the built LP is in
\* the declared variable set and has its bound >= 0, every declared name
\* denotes exactly one (family, technology, hour) combination, and no row
\* refers to a variable that was never created, for every set of enabled
\* technologies and every week list.
C22_VariablesDeclared ==
    /\ built # NoValue => WellDeclared(built[1].techs, built[1].model)
    /\ lp # NoValue => WellDeclared(request[1].techs[1], lp[1])

\* a model of more than a week with storage, whose recurrence rows refer to
\* the state of charge of the hour before, and with the renewable-share row
C22_Witness ==
    /\ StorageBuilt
    /\ Len(built[1].model.flatData) > HOURS_IN_WEEK
    /\ VarSoc(HOURS_IN_WEEK - 1) \in UsedVars(built[1].model)
    /\ \E r \in Range(built[1].model.constraints) : r.name = <<"min", "res", "global">>
    /\ WellDeclared(built[1].techs, built[1].model)

-----------------------------------------------------------------------------
(* C23 *)

\* the charge, discharge and state-of-charge names among a set of names
StorageNames(names) == {v \in names : v[1] = "b"}

\* the energy-capacity variables among the terms of a row
EnergyVarsOf(r) == {r.terms[j].var : j \in DOMAIN r.terms} \cap
                   {v \in {r.terms[j].var : j \in DOMAIN r.terms} : v[1] = "e"}

\* the rows that mention a charge, discharge or state-of-charge variable
StorageRowsOf(model) ==
    {r \in Range(model.constraints) :
        StorageNames({r.terms[j].var : j \in DOMAIN r.terms}) # {}}

\* a balance row carries at most one discharge and one charge term, and
\* they are those of its hour
BalanceHasOneStorage(r) ==
    LET stor == {j \in DOMAIN r.terms : r.terms[j].var[1] = "b"}
    IN /\ Cardinality({j \in stor : r.terms[j].var[2] = "dis"}) <= 1
       /\ Cardinality({j \in stor : r.terms[j].var[2] = "ch"}) <= 1
       /\ \A j \in stor : /\ r.terms[j].var[2] \in {"dis", "ch"}
                          /\ r.terms[j].var[3] = r.name[2]

\* a solution that gives the storage variables of hour h, where declared,
\* three different values
StorageSolution(declared, h) ==
    LET values == (VarCh(h) :> Q(3 * h + 1, 0)) @@ (VarDis(h) :> Q(3 * h + 2, 0))
                  @@ (VarSoc(h) :> Q(3 * h + 3, 0))
    IN [v \in DOMAIN values \cap declared |-> values[v]]

\* a solution that discharges 1 MW in every hour whose discharge variable
\* is declared, and generates nothing
DischargeSolution(model) ==
    [v \in {w \in Range(model.vars) : w[1] = "b" /\ w[2] = "dis"} |-> Q(1, 0)]

\* one storage technology at most is modelled, and it is the one reported
OneStorage(techs, model) ==
    LET enabled == EnabledTechs(techs)
        storages == {t \in Range(enabled) : t.type = "storage"}
        hours == 0..(Len(model.flatData) - 1)
        declared == StorageNames(Range(model.vars))
        stat == StatRows(model.flatData)
        mix == ExtractMix(enabled, DischargeSolution(model), model.flatData)
        srows == StorageRowsOf(model)
        limited == {r \in srows : r.name[1] = "dis" /\ r.name[2] = "lim"}
        caps == ExtractCapacities(enabled, <<>>)
        Reported(h) == ExtractHour(enabled, caps, StorageSolution(declared, h), h,
                                   model.flatData[h + 1]).battery
    IN /\ declared = IF storages = {} THEN {}
                     ELSE UNION { {VarCh(h), VarDis(h), VarSoc(h)} : h \in hours }
       /\ Cardinality({k \in DOMAIN model.vars : model.vars[k][1] = "b"})
            = Cardinality(declared)
       /\ Cardinality({k \in DOMAIN model.constraints :
                          StorageNames({model.constraints[k].terms[j].var :
                                          j \in DOMAIN model.constraints[k].terms}) # {}})
            = Cardinality({r.name : r \in srows})
       /\ \A r \in {q \in Range(model.constraints) : q.name[1] = "bal"} :
             BalanceHasOneStorage(r)
       /\ storages = {} => srows = {}
       /\ storages # {} =>
            \E t \in storages :
               /\ \A r \in srows : EnergyVarsOf(r) \subseteq {VarE(t.id)}
               /\ {r.terms[1].var : r \in {q \in limited : EnergyVarsOf(q) = {VarE(t.id)}}}
                    = {VarDis(h) : h \in hours}
               /\ \A h \in hours :
                     Reported(h) = Some([batteryCharge |-> Q(3 * h + 1, 0),
                                         batteryDischarge |-> Q(3 * h + 2, 0),
                                         batterySoC |-> Q(3 * h + 3, 0)])
               /\ stat # <<>> =>
                     /\ "BATTERY" \in DOMAIN mix
                     /\ mix["BATTERY"] =
                          NSum([m \in DOMAIN stat |->
                                  QTimesWeight(Q(1, 0), model.flatData[stat[m]].weight)])
       /\ storages = {} =>
            /\ "BATTERY" \notin DOMAIN mix
            /\ \A h \in hours : Reported(h) = Undefined

\* C23: whatever the number of enabled storage technologies, the model
\* declares charge, discharge and state-of-charge variables once per hour
\* and writes their rows once, all on the energy capacity of one storage
\* technology; each balance row has at most one discharge and one charge
\* term; and the battery dispatch of the hourly output and the BATTERY entry
\* of the mix are the values of those same variables.
C23_OneStorageModelled ==
    built # NoValue => OneStorage(built[1].techs, built[1].model)

\* a model of several hours built with two enabled storage technologies,
\* some hour of which counts in the statistics
C23_Witness ==
    /\ built # NoValue
    /\ Cardinality({k \in DOMAIN built[1].techs :
                       built[1].techs[k].enabled /\ built[1].techs[k].type = "storage"}) = 2
    /\ Len(built[1].model.flatData) > 1
    /\ StatRows(built[1].model.flatData) # <<>>
    /\ VarDis(1) \in Range(built[1].model.vars)

-----------------------------------------------------------------------------
(* C24 *)

\* the hours of a list of weeks: the week, the record, its index from 0 in
\* the flattened data, and the weight of the week
HoursOfWeeks(chunks) ==
    UNION { { [week |-> w, data |-> chunks[w][k],
               i |-> SeqSum([m \in 1..(w - 1) |-> Len(chunks[m])]) + k - 1,
               weight |-> OrZero(chunks[w][k].weight)] : k \in DOMAIN chunks[w] }
            : w \in DOMAIN chunks }

\* the objective the claim describes, without its zero terms
WeightedObjective(techs, chunks) ==
    LET enabled == Range(EnabledTechs(techs))
        gens == {t \in enabled : t.type # "storage"}
        hours == HoursOfWeeks(chunks)
        storage == \E t \in enabled : t.type = "storage"
        all == { Term(CapacityCost(t),
                      IF t.type = "storage" THEN VarE(t.id) ELSE VarC(t.id)) :
                   t \in enabled }
               \cup { Term(MCoef(getMarginalCost(x[1]) * MoneyScale * x[2].weight),
                          VarG(x[1].id, x[2].i)) : x \in gens \X hours }
               \cup (IF storage
                     THEN { Term(MCoef(CYCLE_COST * h.weight), VarCh(h.i)) : h \in hours }
                     ELSE {})
               \cup { Term(MCoef(VOLL * MoneyScale * h.weight), VarU(h.i)) : h \in hours }
    IN {t \in all : t.coef # MZero}

\* the terms the claim describes for the renewable-share row
WeightedShareTerms(techs, chunks) ==
    LET nonRez == {t \in Range(EnabledTechs(techs)) :
                      t.type # "renewable" /\ t.type # "storage"}
        stat == {h \in HoursOfWeeks(chunks) : h.data.includeInStats}
    IN { Term(x[2].weight * Percent, VarG(x[1].id, x[2].i)) : x \in nonRez \X stat }

\* the objective and the renewable-share row of a model are the weighted ones
WeightedModel(techs, chunks, model) ==
    LET share == {r \in Range(model.constraints) : r.name = <<"min", "res", "global">>}
    IN /\ {t \in Range(model.objective) : t.coef # MZero}
            = WeightedObjective(techs, chunks)
       /\ Cardinality({model.objective[k].var : k \in DOMAIN model.objective})
            = Len(model.objective)
       /\ \A r \in share :
             /\ r.den = Percent
             /\ Range(r.terms) = WeightedShareTerms(techs, chunks)
             /\ Cardinality(Range(r.terms)) = Len(r.terms)

\* C24: in the objective of the built LP every per-hour variable carries
\* its unit cost (marginal cost of the technology for generation, 0.1 for
\* charge, VOLL for unserved energy) times the weight of the week of its
\* hour, every capacity variable carries the unweighted annualised fixed
\* unit cost, and every term of the renewable-share row carries the weight
\* of the week of its hour.
C24_WeightedObjective ==
    built # NoValue =>
        WeightedModel(built[1].techs, built[1].dataChunks, built[1].model)

\* a model of two whole weeks of weights 1 and 2, with a technology of
\* positive marginal cost, a storage technology and the renewable-share row
C24_Witness ==
    /\ built # NoValue
    /\ Len(built[1].dataChunks) = 2
    /\ built[1].dataChunks[1] # <<>> /\ built[1].dataChunks[2] # <<>>
    /\ built[1].dataChunks[1][1].weight = Some(1)
    /\ built[1].dataChunks[2][1].weight = Some(2)
    /\ \E k \in DOMAIN built[1].model.constraints :
          built[1].model.constraints[k].name = <<"min", "res", "global">>
    /\ \E k \in DOMAIN built[1].techs : built[1].techs[k].type = "storage"
    /\ \E k \in DOMAIN built[1].techs :
          /\ built[1].techs[k].type # "storage"
          /\ getMarginalCost(built[1].techs[k]) > 0

-----------------------------------------------------------------------------
(* C25 *)

\* the indices from 0 of the hours left out of the statistics
ExcludedHours(flatData) ==
    {k - 1 : k \in {j \in DOMAIN flatData : ~flatData[j].includeInStats}}

\* the variables of a set of hours
VarsOfHours(techs, hours) ==
    UNION { {VarCh(h), VarDis(h), VarSoc(h), VarU(h)}
            \cup {VarG(techs[k].id, h) : k \in DOMAIN techs} : h \in hours }

\* a solution worth x on the variables of `marked` and 1 elsewhere
MarkedSolution(model, marked, x) ==
    [v \in Range(model.vars) |-> IF v \in marked THEN Q(x, 0) ELSE Q(1, 0)]

\* the weeks with every hour counted in the statistics
AllIncluded(chunks) ==
    [w \in DOMAIN chunks |->
        [k \in DOMAIN chunks[w] |-> [chunks[w][k] EXCEPT !.includeInStats = TRUE]]]

\* the data with the demand of the hours left out of the statistics raised
DemandRaised(flatData) ==
    [k \in DOMAIN flatData |->
        IF flatData[k].includeInStats THEN flatData[k]
        ELSE [flatData[k] EXCEPT !.demand = @ + 5]]

\* the aggregates of a result that the claim names
StatAggregates(enabled, solution, flatData) ==
    [mix |-> ExtractMix(enabled, solution, flatData),
     totalCo2 |-> ExtractCo2(enabled, solution, flatData),
     unservedEnergy |-> ExtractAnnualUnserved(solution, flatData),
     annualServed |-> TotalServed(ExtractAnnualDemand(flatData),
                                  ExtractAnnualUnserved(solution, flatData)),
     variableCost |-> ExtractVariableCost(enabled, solution, flatData)]

\* the hours left out of the statistics are modelled like the others and
\* reported hour by hour, and the aggregates do not depend on them
ExcludedOnlyFromStats(techs, chunks, minRenewables, model) ==
    LET enabled == EnabledTechs(techs)
        flatData == model.flatData
        excluded == ExcludedHours(flatData)
        marked == VarsOfHours(enabled, excluded)
        plain == buildLPModel(techs, AllIncluded(chunks), 0)
        share == {r \in Range(model.constraints) : r.name = <<"min", "res", "global">>}
        stat == SelectSeq(flatData, LAMBDA d : d.includeInStats)
        one == MarkedSolution(model, marked, 1)
        seven == MarkedSolution(model, marked, 7)
        caps == ExtractCapacities(enabled, seven)
    IN /\ model.objective = plain.objective
       /\ model.vars = plain.vars
       /\ SelectSeq(model.constraints, LAMBDA r : r \notin share) = plain.constraints
       /\ \A r \in share :
             /\ {r.terms[j].var : j \in DOMAIN r.terms} \cap marked = {}
             /\ r.rhs = SeqSum([k \in DOMAIN stat |->
                                  stat[k].demand * OrZero(stat[k].weight)])
                         * (Percent - minRenewables)
       /\ \A h \in excluded :
             LET row == ExtractHour(enabled, caps, seven, h, flatData[h + 1])
             IN /\ row.shortfall = Q(7, 0)
                /\ \A id \in DOMAIN row.gen : row.gen[id] = Q(7, 0)
                /\ row.battery # Undefined => row.battery[1].batteryDischarge = Q(7, 0)
       /\ StatAggregates(enabled, one, flatData)
            = StatAggregates(enabled, seven, DemandRaised(flatData))

\* C25: an hour whose includeInStats is false gets its balance,
\* capacity-link and storage rows and its weighted objective terms like any
\* other hour and is reported in the hourly output, and neither its demand
\* nor its solution values enter the mix, the total emissions, the unserved
\* energy, the served energy, the variable cost or the renewable-share row.
C25_ExcludedOnlyFromStats ==
    built # NoValue =>
        ExcludedOnlyFromStats(built[1].techs, built[1].dataChunks,
                              built[1].minRenewables, built[1].model)

\* a model with a whole week left out of the statistics and hours that
\* count, with storage, an emitting technology and the renewable-share row
C25_Witness ==
    /\ built # NoValue
    /\ Cardinality(ExcludedHours(built[1].model.flatData)) > 100
    /\ StatRows(built[1].model.flatData) # <<>>
    /\ \E k \in DOMAIN built[1].model.constraints :
          built[1].model.constraints[k].name = <<"min", "res", "global">>
    /\ \E k \in DOMAIN built[1].techs : built[1].techs[k].type = "storage"
    /\ \E k \in DOMAIN built[1].techs :
          built[1].techs[k].co2 > 0 /\ built[1].techs[k].type # "storage"

-----------------------------------------------------------------------------
(* C26 *)

\* r (1 + r)^n / ((1 + r)^n - 1) for r = wacc / 100, from the claim
ClaimedCRF(wacc, n) ==
    LET up == Pow(Percent + wacc, n)
    IN Rat(wacc * up, Percent * (up - Pow(Percent, n)))

\* capex x CRF + fixed opex, capex / n + fixed opex at discount rate zero
ClaimedAnnualCost(capex, opex, wacc, n) ==
    IF wacc = 0 THEN RAdd(RDiv(capex, RInt(n)), opex)
    ELSE RAdd(RMul(capex, ClaimedCRF(wacc, n)), opex)

\* the same per unit of energy capacity for storage: capex per kWh (given,
\* or capex over the duration) and fixed opex over the duration
ClaimedUnitCost(tech) ==
    LET duration == IF tech.duration = Undefined THEN DefaultDuration
                    ELSE tech.duration[1]
        perKwh == IF tech.capexPerKwh = Undefined
                  THEN Rat(tech.capex, duration)
                  ELSE RInt(tech.capexPerKwh[1])
    IN IF tech.type = "storage"
       THEN ClaimedAnnualCost(perKwh, Rat(tech.opexFixed, duration),
                              tech.wacc, tech.lifetime)
       ELSE ClaimedAnnualCost(RInt(tech.capex), RInt(tech.opexFixed),
                              tech.wacc, tech.lifetime)

\* dollars per MW (or MWh) and year, in money units
ClaimedCoefficient(tech) ==
    LET perMw == RMul(ClaimedUnitCost(tech), RInt(KW_TO_MW))
    IN MCoef((perMw.n * MoneyScale) \div perMw.d)

\* C26: getAnnualFixedCost is capex x CRF + fixed opex with
\* CRF = r(1+r)^n / ((1+r)^n - 1), and capex/n + fixed opex at r = 0; for
\* storage the rule applies to the cost per unit of energy capacity with
\* fixed opex divided by the duration; and the coefficient of the capacity
\* variable in the objective is the cost the extractor charges per unit of
\* capacity.
C26_AnnualizedCost ==
    priced # NoValue =>
        LET tech == priced[1].tech
        IN /\ priced[1].annual
                = ClaimedAnnualCost(RInt(tech.capex), RInt(tech.opexFixed),
                                    tech.wacc, tech.lifetime)
           /\ Len(priced[1].objective) = 1
           /\ priced[1].objective[1].coef = ClaimedCoefficient(tech)
           /\ priced[1].totalCost = Num(priced[1].objective[1].coef)

\* a storage technology with capex, fixed O&M, a duration and a positive
\* discount rate has been priced
C26_Witness ==
    /\ priced # NoValue
    /\ priced[1].tech.type = "storage"
    /\ priced[1].tech.wacc = 10 /\ priced[1].tech.lifetime = 3
    /\ priced[1].tech.capex = 8 /\ priced[1].tech.opexFixed = 4
    /\ priced[1].tech.duration = Some(2)
    /\ priced[1].tech.capexPerKwh = Undefined
    /\ priced[1].totalCost # Num(MZero)

-----------------------------------------------------------------------------
(* C27 *)

\* every hour of the result counts in the statistics and carries a weight
AllHoursCounted ==
    \A k \in DOMAIN Result.hourly :
        /\ Result.hourly[k].data.includeInStats
        /\ Result.hourly[k].data.weight # Undefined

\* the weighted variable cost of the hours left out of the statistics, at
\* the returned solution
ExcludedVariableCost ==
    LET batt == FindStorage(ReqEnabled)
        out == SelectSeq([k \in DOMAIN Result.hourly |-> k],
                         LAMBDA k : ~Result.hourly[k].data.includeInStats)
    IN MSum(Flat([m \in DOMAIN out |->
          LET i == out[m] - 1
              w == OrZero(Result.hourly[out[m]].data.weight)
              x == solverResult[1].Columns
          IN [j \in DOMAIN ReqGens |->
                 MTimesQ(MCoef(getMarginalCost(ReqGens[j]) * w * MoneyScale),
                         Primal(x, VarG(ReqGens[j].id, i)))]
             \o (IF batt = Undefined THEN <<>>
                 ELSE <<MTimesQ(MCoef(CYCLE_COST * w), Primal(x, VarCh(i)))>>)
             \o <<MTimesQ(MCoef(VOLL * MoneyScale * w), Primal(x, VarU(i)))>>]))

\* C27: when every hour counts in the statistics and carries a weight, the
\* total cost of the result is the value of the objective of the LP at the
\* returned solution; in general the objective exceeds the total cost by
\* the weighted variable cost of the hours left out of the statistics, and
\* by nothing else.
C27_CostIsObjective ==
    (Answered /\ StatsWeighted) =>
        /\ Result.totalCost # NaN
        /\ MAdd(Result.totalCost[1], ExcludedVariableCost) = ObjectiveValue
        /\ AllHoursCounted => Result.totalCost[1] = ObjectiveValue

\* a result all of whose hours count, with capacity built, generation at a
\* marginal cost and a cost to report
C27_Witness ==
    /\ Answered
    /\ AllHoursCounted
    /\ Result.hourly # <<>>
    /\ Result.totalCost # NaN
    /\ Result.totalCost[1] = ObjectiveValue
    /\ Result.totalCost[1] # MZero
    /\ \E j \in DOMAIN ReqGens :
          /\ getMarginalCost(ReqGens[j]) > 0
          /\ Result.capacities[ReqGens[j].id].s > 0
          /\ \E k \in DOMAIN Result.hourly :
                Result.hourly[k].gen[ReqGens[j].id].s > 0

-----------------------------------------------------------------------------
(* C28 *)

\* the data with 0 for every missing weight, as buildLPModel reads it
WeightsOrZero(flatData) ==
    [k \in DOMAIN flatData |->
        [flatData[k] EXCEPT !.weight = Some(OrZero(flatData[k].weight))]]

\* every aggregate is a number
AllDefined(agg) ==
    /\ \A id \in DOMAIN agg.mix : agg.mix[id] # NaN
    /\ agg.totalCo2 # NaN
    /\ agg.unservedEnergy # NaN
    /\ agg.annualServed # NaN
    /\ agg.variableCost # NaN

\* C28: the extractor weighs every hour as the builder does, a missing
\* weight counting as 0, so that served energy, unserved energy, mix,
\* emissions and variable cost are defined numbers for every week list.
\* Stated of the extraction from each model built, at the solution that
\* gives every variable the value 1.
C28_MissingWeightIsZero ==
    built # NoValue =>
        LET enabled == EnabledTechs(built[1].techs)
            model == built[1].model
            agg == StatAggregates(enabled, MarkedSolution(model, {}, 1), model.flatData)
        IN /\ AllDefined(agg)
           /\ agg = StatAggregates(enabled, MarkedSolution(model, {}, 1),
                                   WeightsOrZero(model.flatData))

-----------------------------------------------------------------------------
(* C29 *)

\* the server accepts HTTP requests
Accepting == pc \in {"listening", "received", "responded"}

\* C29: the server starts to accept requests only from the state where
\* loadData has completed and highsSolver is assigned; whenever it accepts
\* requests or handles a POST /api/optimize the solver is initialised; and
\* once the initialisation of the solver has failed, or as long as it has
\* not completed, the server does not listen.
C29_ListenAfterInit ==
    [][ /\ (Accepting' => highsSolver')
        /\ ((Accepting' /\ ~Accepting) => (pc = "loaded" /\ highsSolver))
        /\ ((pc = "failed") => (pc' = "failed" /\ ~highsSolver'))
        /\ ((~highsSolver') => ~Accepting') ]_vars

\* a POST /api/optimize with technologies is being handled
C29_Witness ==
    /\ pc = "received"
    /\ request # NoValue
    /\ request[1].techs # Undefined
    /\ highsSolver

-----------------------------------------------------------------------------
(* C30 *)

\* C30: once no request is in flight and no timer is pending, and no
\* request failed, the result displayed answers the latest inputs and the
\* indicator is off; while the request for the latest inputs is in flight
\* the indicator is on; and the result displayed is never older than a
\* response already received, whatever the order of the responses.
C30_LatestResultShown ==
    /\ (inflight = {} /\ timer = NoValue /\ error = NoValue)
          => (simulationResult = Some(inputs) /\ ~isSimulating)
    /\ (inputs \in inflight) => isSimulating
    /\ (simulationResult # NoValue /\ inputs \notin inflight /\ timer = NoValue
          /\ error = NoValue) => simulationResult = Some(inputs)

=============================================================================
